---- MODULE Spec2Model ----
(***************************************************************************)
(* A state-machine model of cpp_redis::subscriber                          *)
(* (sources/core/subscriber.cpp, includes/cpp_redis/core/subscriber.hpp).  *)
(*                                                                         *)
(* Threads: caller threads issue the public operations; the transport's    *)
(* threads deliver replies (connection_receive_handler) and disconnect     *)
(* events (connection_disconnection_handler); detached worker threads      *)
(* deliver the synthetic "network failure" replies of clear_ping_callbacks.*)
(* The transport (network::redis_connection) is a collaborator: a          *)
(* connected flag, a command buffer filled by send() and flushed by        *)
(* commit(), and the server at the other end of the current connection.    *)
(***************************************************************************)
EXTENDS Integers, Sequences, FiniteSets, TLC

\* ------------------------------------------------------------------ bounds
MaxBuf == 1
MaxOob == 1
MaxPings == 2
MaxAttempts == 2
MaxArms == 2
MaxPingBuf == 2

\* ------------------------------------------------------------- input sets
Null == "null"
Channels == {"x", "y"}
Patterns == {"p"}
\* std::map iterates its keys in increasing order
ChannelOrder == <<"x", "y">>
PatternOrder == <<"p">>
\* the callback_holder values the caller registers
Holders == {[subscribe_callback |-> "M1", acknowledgement_callback |-> "A1"],
            [subscribe_callback |-> "M2", acknowledgement_callback |-> Null]}
Passwords == {"pw"}
ClientNames == {"svc"}
\* the values connect() is called with for max_reconnects
MaxReconnectsArgs == {-1, 0, 1, 2}
\* the reply callbacks the caller passes to auth() and client_setname(), and
\* the logging lambdas re_auth() and re_client_setname() arm
OobCallbacks == {"K1", "K2"}
ReAuthLog == "re_auth_log"
ReSetnameLog == "re_client_setname_log"
\* ping(m, cb): the messages, and the callback the i-th call may pass
PingMsgs == {"", "a"}
PingCbs == <<"P1", "P2", "P3", "P4", "P5", "P6">>
Handlers == {"h1", "h2"}
Callers == {"t1"}
\* the caller threads that call ping() concurrently
Pingers == {"u1", "u2"}
NoOwner == "none"
\* the arguments of connect(): addresses, the connect callback, timeouts and
\* reconnect intervals in milliseconds
Hosts == {"127.0.0.1", "10.0.0.2"}
Ports == {6379, 6380}
MasterNames == {"mymaster"}
ConnectCb == "CB"
TimeoutArgs == {0, 500}
IntervalArgs == {0, 100}
\* the argument lists connect() may be called with
ConnectArgs ==
  [host : Hosts, port : Ports, connect_callback : {Null, ConnectCb},
   timeout_ms : TimeoutArgs, max_reconnects : MaxReconnectsArgs,
   reconnect_interval_ms : IntervalArgs, use_encryption : BOOLEAN]
\* the default arguments of connect(host, port, ...)
DefaultArgs == [host |-> "127.0.0.1", port |-> 6379, connect_callback |-> Null,
                timeout_ms |-> 0, max_reconnects |-> 0,
                reconnect_interval_ms |-> 0, use_encryption |-> FALSE]
\* the receive thread, as an owner of a mutex
Rx == "rx"
Mutexes == {"m_ping_callbacks_mutex", "m_subscribed_channels_mutex",
            "m_psubscribed_channels_mutex"}

VARIABLES
  \* subscriber members (subscriber.hpp)
  m_reconnecting, m_cancel, m_password, m_client_name,
  m_auth_reply_callback, m_client_setname_reply_callback,
  m_subscribed_channels, m_psubscribed_channels, m_ping_callbacks,
  m_max_reconnects, m_current_reconnect_attempts,
  m_redis_server, m_redis_port, m_master_name, m_connect_callback,
  m_connect_timeout_ms, m_reconnect_interval_ms, m_use_encryption,
  \* owners of m_ping_callbacks_mutex, m_subscribed_channels_mutex,
  \* m_psubscribed_channels_mutex
  ping_mtx, sub_mtx, psub_mtx,
  \* the transport: m_client.is_connected(), its command buffer, the replies
  \* on their way to the receive handler, and the subscriptions the server
  \* holds for the current connection
  connected, buffer, replies, srv,
  \* control state: each disconnect-handler thread's position, each caller
  \* thread's position, the callbacks held by detached failure workers
  hpc, cpc, rpc, failing,
  \* each pinging thread's position in ping() and the arguments of its call
  pingers,
  \* history: the commands sent by the running replay and the cached values
  \* it started from; callbacks invoked; counters that bound the model
  replay, snap, armed, fired, failed, lastPong, pingCb, torn,
  lateConnects, loopAttempts, begun,
  \* history: what each thread's running call has notified to the connect
  \* callback and when it called m_client.connect; the arguments of the
  \* caller's last connect() and of the last m_client.connect; the last
  \* message or acknowledgement callback invoked
  notes, requested, lastConnect, lastCall

memberVars == <<m_reconnecting, m_cancel, m_password, m_client_name,
                m_auth_reply_callback, m_client_setname_reply_callback,
                m_subscribed_channels, m_psubscribed_channels, m_ping_callbacks,
                m_max_reconnects, m_current_reconnect_attempts,
                m_redis_server, m_redis_port, m_master_name, m_connect_callback,
                m_connect_timeout_ms, m_reconnect_interval_ms, m_use_encryption>>
mtxVars == <<ping_mtx, sub_mtx, psub_mtx>>
netVars == <<connected, buffer, replies, srv>>
ctlVars == <<hpc, cpc, rpc, failing, pingers>>
histVars == <<replay, snap, armed, fired, failed, lastPong, pingCb,
              torn, lateConnects, loopAttempts, begun,
              notes, requested, lastConnect, lastCall>>
vars == <<memberVars, mtxVars, netVars, ctlVars, histVars>>
\* groups used by the frame conditions
flagVars == <<m_reconnecting, m_cancel>>
credVars == <<m_password, m_client_name>>
oobVars == <<m_auth_reply_callback, m_client_setname_reply_callback>>
regVars == <<m_subscribed_channels, m_psubscribed_channels>>
rcVars == <<m_max_reconnects, m_current_reconnect_attempts>>
oobHist == <<armed, fired>>
pingHist == <<failed, lastPong, pingCb, torn>>
recHist == <<lateConnects, loopAttempts, begun>>
connVars == <<m_redis_server, m_redis_port, m_master_name, m_connect_callback,
              m_connect_timeout_ms, m_reconnect_interval_ms, m_use_encryption>>
obsHist == <<notes, requested, lastConnect, lastCall>>

\* ---------------------------------------------------------------- helpers
EmptyMap == [n \in {} |-> Null]
MapPut(t, k, v) == [n \in (DOMAIN t) \cup {k} |-> IF n = k THEN v ELSE t[n]]
\* an erase that empties the map
MapEraseAll(t, k) == EmptyMap
MapErase(t, k) == [n \in (DOMAIN t) \ {k} |-> t[n]]
Range(s) == {s[i] : i \in DOMAIN s}

RECURSIVE SeqMap(_, _, _)
\* <<Op(order[1]), ...>> restricted to the keys of table t, in key order
SeqMap(order, t, op) ==
  IF order = <<>> THEN <<>>
  ELSE (IF Head(order) \in DOMAIN t THEN <<<<op, Head(order)>>>> ELSE <<>>)
       \o SeqMap(Tail(order), t, op)

RECURSIVE ServerApply(_, _)
\* the server applies committed commands in order to its subscription sets
ServerApply(s, cmds) ==
  IF cmds = <<>> THEN s
  ELSE LET c == Head(cmds)
           s2 == CASE c[1] = "SUBSCRIBE" -> [s EXCEPT !.sub = @ \cup {c[2]}]
                   [] c[1] = "UNSUBSCRIBE" -> [s EXCEPT !.sub = @ \ {c[2]}]
                   [] c[1] = "PSUBSCRIBE" -> [s EXCEPT !.psub = @ \cup {c[2]}]
                   [] c[1] = "PUNSUBSCRIBE" -> [s EXCEPT !.psub = @ \ {c[2]}]
                   [] OTHER -> s
       IN ServerApply(s2, Tail(cmds))

\* ---------------------------------------------------------- the transport
\* m_client.send: the command joins the connection's buffer
TransportSend(buf, cmd) == Append(buf, cmd)

\* the reply the server sends for one command: a status reply for AUTH and
\* CLIENT SETNAME, a pong for PING; acknowledgements and published messages
\* are delivered by ReceiveArray. `to` records the command a status reply
\* answers; the subscriber cannot read it
ReplyTo(c) ==
  CASE c[1] = "AUTH" -> <<[kind |-> "status", msg |-> "OK", to |-> "AUTH"]>>
    [] c[1] = "CLIENT" -> <<[kind |-> "status", msg |-> "OK", to |-> "CLIENT"]>>
    [] c[1] = "PING" -> <<[kind |-> "pong",
                          msg |-> IF Len(c) = 2 THEN c[2] ELSE ""]>>
    [] OTHER -> <<>>

RECURSIVE RepliesTo(_)
RepliesTo(cmds) ==
  IF cmds = <<>> THEN <<>> ELSE ReplyTo(Head(cmds)) \o RepliesTo(Tail(cmds))

\* m_client.commit on a connected transport: the buffered commands reach the
\* server in order and the buffer is left empty
TransportFlush ==
  /\ srv' = ServerApply(srv, buffer)
  /\ replies' = replies \o RepliesTo(buffer)
  /\ buffer' = <<>>

\* a torn-down connection: its buffered commands and the replies still on
\* their way are lost, and the server forgets the connection's subscriptions
TransportDown ==
  /\ connected' = FALSE
  /\ buffer' = <<>>
  /\ replies' = <<>>
  /\ srv' = [sub |-> {}, psub |-> {}]

\* ---------------------------------------------------------- construction
\* what a replay read, outside a replay: the password re_auth read (pw), the
\* name re_client_setname read (name), the registry when reconnect()
\* connected (sub, psub) and when the transport dropped (dsub, dpsub)
NoSnap == [pw |-> "", name |-> "", sub |-> EmptyMap, psub |-> EmptyMap,
           dsub |-> EmptyMap, dpsub |-> EmptyMap]

\* no connect() yet, no callback invoked yet
NoConnect == [by |-> NoOwner]
NoCall == [cb |-> Null]
\* a pinging thread outside ping()
NoPing == [at |-> "idle", message |-> "", reply_callback |-> Null]

\* subscriber::subscriber: nothing connected, nothing registered
Init ==
  /\ m_reconnecting = FALSE
  /\ m_cancel = FALSE
  /\ m_password = ""
  /\ m_client_name = ""
  /\ m_auth_reply_callback = Null
  /\ m_client_setname_reply_callback = Null
  /\ m_subscribed_channels = EmptyMap
  /\ m_psubscribed_channels = EmptyMap
  /\ m_ping_callbacks = <<>>
  /\ m_max_reconnects = 0
  /\ m_current_reconnect_attempts = 0
  /\ ping_mtx = NoOwner
  /\ sub_mtx = NoOwner
  /\ psub_mtx = NoOwner
  /\ connected = FALSE
  /\ buffer = <<>>
  /\ replies = <<>>
  /\ srv = [sub |-> {}, psub |-> {}]
  /\ hpc = [h \in Handlers |-> "idle"]
  /\ cpc = [t \in Callers |-> "idle"]
  /\ pingers = [t \in Pingers |-> NoPing]
  /\ failing = {}
  /\ replay = <<>>
  /\ snap = NoSnap
  /\ rpc = "idle"
  /\ armed = [k \in OobCallbacks |-> 0]
  /\ fired = [k \in OobCallbacks |-> 0]
  /\ failed = {}
  /\ lastPong = [idx |-> 0, msg |-> Null, cb |-> Null]
  /\ pingCb = <<>>
  /\ torn = {}
  /\ lateConnects = 0
  /\ loopAttempts = [h \in Handlers |-> 0]
  /\ begun = 0
  /\ m_redis_server = ""
  /\ m_redis_port = 0
  /\ m_master_name = ""
  /\ m_connect_callback = Null
  /\ m_connect_timeout_ms = 0
  /\ m_reconnect_interval_ms = 0
  /\ m_use_encryption = FALSE
  /\ notes = [th \in Callers \cup Handlers |-> <<>>]
  /\ requested = NoConnect
  /\ lastConnect = NoConnect
  /\ lastCall = NoCall

\* ------------------------------------------------------- ping bookkeeping
\* the PING commands not yet answered: pongs on their way, then PINGs buffered
Outstanding ==
  Len(SelectSeq(replies, LAMBDA r : r.kind = "pong"))
    + Len(SelectSeq(buffer, LAMBDA c : c[1] = "PING"))
\* the non-null callbacks of the pings not yet answered
OutstandingCbs ==
  {pingCb[i].cb : i \in ((Len(pingCb) - Outstanding + 1)..Len(pingCb))
                          \cap DOMAIN pingCb} \ {Null}

\* ------------------------------------------------------ caller operations
\* the mutexes thread th owns
HeldBy(th) ==
  (IF ping_mtx = th THEN {"m_ping_callbacks_mutex"} ELSE {})
    \cup (IF sub_mtx = th THEN {"m_subscribed_channels_mutex"} ELSE {})
    \cup (IF psub_mtx = th THEN {"m_psubscribed_channels_mutex"} ELSE {})

\* the mutexes thread th owns after the step
HeldNext(th) ==
  (IF ping_mtx' = th THEN {"m_ping_callbacks_mutex"} ELSE {})
    \cup (IF sub_mtx' = th THEN {"m_subscribed_channels_mutex"} ELSE {})
    \cup (IF psub_mtx' = th THEN {"m_psubscribed_channels_mutex"} ELSE {})

\* the locks a thread holds are released when it leaves, by return
\* or by exception
Unlock(h) ==
  /\ ping_mtx' = IF ping_mtx = h THEN NoOwner ELSE ping_mtx
  /\ sub_mtx' = IF sub_mtx = h THEN NoOwner ELSE sub_mtx
  /\ psub_mtx' = IF psub_mtx = h THEN NoOwner ELSE psub_mtx

\* "if (m_connect_callback) m_connect_callback(host, port, state)" on thread
\* th: the log gets the state and the mutexes th owns during the call
Notify(cb, log, th, state) ==
  IF cb = Null THEN log
  ELSE Append(log, [state |-> state, held |-> HeldBy(th)])

\* the log entries that are not notifications: the call of m_client.connect,
\* and the exception that leaves connect()
Marks == {"m_client.connect", "throw"}
Mark(th, what) == [state |-> what, held |-> HeldBy(th)]

\* the notifications of a log, in order
States(log) ==
  LET n == SelectSeq(log, LAMBDA e : e.state \notin Marks)
  IN [i \in DOMAIN n |-> n[i].state]

\* connect(host, port, ...) that notifies `ok` whatever m_client.connect does
ConnectNotesOkAlways(cb, log, th, ok) ==
  Notify(cb, Append(Notify(cb, log, th, "start"), Mark(th, "m_client.connect")),
         th, "ok")

\* the body of connect(host, port, ...) after the members are saved: `start`,
\* m_client.connect, and `ok` unless m_client.connect threw
ConnectNotes(cb, log, th, ok) ==
  LET called == Append(Notify(cb, log, th, "start"), Mark(th, "m_client.connect"))
  IN IF ok THEN Notify(cb, called, th, "ok")
     ELSE Append(called, Mark(th, "throw"))

\* the statements of connect(host, port, ...): the parameters are cached (the
\* timeout is not), then m_client.connect either succeeds or throws
ConnectBody(t, a, ok) ==
  /\ cpc[t] = "idle"
  /\ ~connected
  /\ m_redis_server' = a.host
  /\ m_redis_port' = a.port
  /\ m_connect_callback' = a.connect_callback
  /\ m_max_reconnects' = a.max_reconnects
  /\ m_reconnect_interval_ms' = a.reconnect_interval_ms
  /\ m_use_encryption' = a.use_encryption
  /\ connected' = ok
  /\ srv' = [sub |-> {}, psub |-> {}]
  /\ replies' = <<>>
  /\ notes' = [notes EXCEPT ![t] = ConnectNotes(a.connect_callback, <<>>, t, ok)]
  /\ requested' = [by |-> t, args |-> a]
  /\ UNCHANGED <<flagVars, credVars, oobVars, regVars, m_ping_callbacks,
                 m_current_reconnect_attempts, mtxVars, buffer, ctlVars,
                 replay, snap, oobHist, failed, lastPong, pingCb, torn,
                 recHist,
                 m_connect_timeout_ms, lastConnect, lastCall>>

\* subscriber::connect(host, port, connect_callback, timeout_ms,
\* max_reconnects, reconnect_interval_ms, use_encryption)
connect(t, a, ok) ==
  /\ ConnectBody(t, a, ok)
  /\ UNCHANGED m_master_name

\* connect() with max_reconnects and otherwise the default arguments
Connect(t, maxr, ok) ==
  connect(t, [DefaultArgs EXCEPT !.max_reconnects = maxr], ok)

\* the answers of m_sentinel.get_master_addr_by_name: no master found, or the
\* address of the current master
NoLookup == [found |-> FALSE]
Lookups ==
  {NoLookup} \cup {[found |-> TRUE, host |-> hst, port |-> prt] :
                      hst \in Hosts, prt \in Ports}

\* subscriber::connect(name, ...): the master name is saved, the sentinel is
\* asked for the master's address, and connect(host, port, ...) goes there;
\* without a master the call throws
ConnectMaster(t, name, a, lookup, ok) ==
  IF lookup.found
  THEN /\ ConnectBody(t, [a EXCEPT !.host = lookup.host, !.port = lookup.port], ok)
       /\ m_master_name' = name
  ELSE /\ cpc[t] = "idle"
       /\ ~connected
       /\ m_master_name' = name
       /\ notes' = [notes EXCEPT ![t] = <<Mark(t, "throw")>>]
       /\ UNCHANGED <<flagVars, credVars, oobVars, regVars, m_ping_callbacks,
                      rcVars, m_redis_server, m_redis_port, m_connect_callback,
                      m_connect_timeout_ms, m_reconnect_interval_ms,
                      m_use_encryption, mtxVars, netVars, ctlVars,
                      replay, snap, oobHist, pingHist, recHist,
                      requested, lastConnect, lastCall>>

\* subscriber::cancel_reconnect
CancelReconnect(t) ==
  /\ cpc[t] = "idle"
  /\ m_cancel' = TRUE
  /\ UNCHANGED <<m_reconnecting, credVars, oobVars, regVars,
                 m_ping_callbacks, rcVars, mtxVars, netVars, ctlVars,
                 histVars,
                 connVars>>

\* handler h is between its reconnect and the commit of its replay
InReplay(h) == hpc[h] \in {"re_auth", "re_client_setname", "re_subscribe", "commit"}

\* the caller waits for status replies before it piles up more requests
OobRoom == Len(SelectSeq(replies, LAMBDA r : r.kind = "status")) < MaxOob

\* subscriber::auth
Auth(t, password, reply_callback) ==
  /\ cpc[t] = "idle"
  /\ Len(buffer) < MaxBuf
  /\ reply_callback # Null => armed[reply_callback] < MaxArms
  /\ m_password' = password
  /\ m_auth_reply_callback' = reply_callback
  /\ buffer' = TransportSend(buffer, <<"AUTH", password>>)
  /\ armed' = IF reply_callback = Null THEN armed
              ELSE [armed EXCEPT ![reply_callback] = @ + 1]
  /\ UNCHANGED <<flagVars, m_client_name, m_client_setname_reply_callback,
                 regVars, m_ping_callbacks, rcVars, mtxVars,
                 connected, replies, srv, ctlVars,
                 replay, snap, fired, pingHist, recHist,
                 connVars, obsHist>>

\* subscriber::client_setname
ClientSetname(t, name, reply_callback) ==
  /\ cpc[t] = "idle"
  /\ Len(buffer) < MaxBuf
  /\ reply_callback # Null => armed[reply_callback] < MaxArms
  /\ m_client_name' = name
  /\ m_client_setname_reply_callback' = reply_callback
  /\ buffer' = TransportSend(buffer, <<"CLIENT", "SETNAME", name>>)
  /\ armed' = IF reply_callback = Null THEN armed
              ELSE [armed EXCEPT ![reply_callback] = @ + 1]
  /\ UNCHANGED <<flagVars, m_password, m_auth_reply_callback,
                 regVars, m_ping_callbacks, rcVars, mtxVars,
                 connected, replies, srv, ctlVars,
                 replay, snap, fired, pingHist, recHist,
                 connVars, obsHist>>

\* subscriber::unprotected_subscribe: register, then buffer SUBSCRIBE
unprotected_subscribe(chans, buf, channel, holder) ==
  [chans |-> MapPut(chans, channel, holder),
   buf |-> TransportSend(buf, <<"SUBSCRIBE", channel>>)]

\* subscriber::unprotected_psubscribe: register, then buffer PSUBSCRIBE
unprotected_psubscribe(chans, buf, pattern, holder) ==
  [chans |-> MapPut(chans, pattern, holder),
   buf |-> TransportSend(buf, <<"PSUBSCRIBE", pattern>>)]

\* a subscribe that puts its command on the wire at once
SubscribeSendsNow(t, channel, holder) ==
  /\ cpc[t] = "idle"
  /\ sub_mtx = NoOwner
  /\ m_subscribed_channels' = MapPut(m_subscribed_channels, channel, holder)
  /\ srv' = ServerApply(srv, <<<<"SUBSCRIBE", channel>>>>)
  /\ UNCHANGED <<flagVars, credVars, oobVars, m_psubscribed_channels,
                 m_ping_callbacks, rcVars, mtxVars,
                 connected, buffer, replies, ctlVars, histVars,
                 connVars>>

\* subscriber::subscribe, under m_subscribed_channels_mutex
Subscribe(t, channel, holder) ==
  /\ cpc[t] = "idle"
  /\ sub_mtx = NoOwner
  /\ Len(buffer) < MaxBuf
  /\ LET r == unprotected_subscribe(m_subscribed_channels, buffer, channel, holder)
     IN /\ m_subscribed_channels' = r.chans
        /\ buffer' = r.buf
  /\ UNCHANGED <<flagVars, credVars, oobVars, m_psubscribed_channels,
                 m_ping_callbacks, rcVars, mtxVars,
                 connected, replies, srv, ctlVars, histVars,
                 connVars>>

\* subscriber::psubscribe, under m_psubscribed_channels_mutex
Psubscribe(t, pattern, holder) ==
  /\ cpc[t] = "idle"
  /\ psub_mtx = NoOwner
  /\ Len(buffer) < MaxBuf
  /\ LET r == unprotected_psubscribe(m_psubscribed_channels, buffer, pattern, holder)
     IN /\ m_psubscribed_channels' = r.chans
        /\ buffer' = r.buf
  /\ UNCHANGED <<flagVars, credVars, oobVars, m_subscribed_channels,
                 m_ping_callbacks, rcVars, mtxVars,
                 connected, replies, srv, ctlVars, histVars,
                 connVars>>

\* subscriber::unsubscribe, under m_subscribed_channels_mutex
Unsubscribe(t, channel) ==
  /\ cpc[t] = "idle"
  /\ sub_mtx = NoOwner
  /\ channel \in DOMAIN m_subscribed_channels => Len(buffer) < MaxBuf
  /\ IF channel \notin DOMAIN m_subscribed_channels
     THEN UNCHANGED <<m_subscribed_channels, buffer>>
     ELSE /\ buffer' = TransportSend(buffer, <<"UNSUBSCRIBE", channel>>)
          /\ m_subscribed_channels' = MapErase(m_subscribed_channels, channel)
  /\ UNCHANGED <<flagVars, credVars, oobVars, m_psubscribed_channels,
                 m_ping_callbacks, rcVars, mtxVars,
                 connected, replies, srv, ctlVars, histVars,
                 connVars>>

\* subscriber::punsubscribe, under m_psubscribed_channels_mutex
Punsubscribe(t, pattern) ==
  /\ cpc[t] = "idle"
  /\ psub_mtx = NoOwner
  /\ pattern \in DOMAIN m_psubscribed_channels => Len(buffer) < MaxBuf
  /\ IF pattern \notin DOMAIN m_psubscribed_channels
     THEN UNCHANGED <<m_psubscribed_channels, buffer>>
     ELSE /\ buffer' = TransportSend(buffer, <<"PUNSUBSCRIBE", pattern>>)
          /\ m_psubscribed_channels' = MapErase(m_psubscribed_channels, pattern)
  /\ UNCHANGED <<flagVars, credVars, oobVars, m_subscribed_channels,
                 m_ping_callbacks, rcVars, mtxVars,
                 connected, replies, srv, ctlVars, histVars,
                 connVars>>

\* subscriber::commit: m_client.commit flushes the buffer, or throws on a
\* transport that is not connected (the commands it took are lost)
Commit(t) ==
  /\ cpc[t] = "idle"
  /\ IF connected
     THEN TransportFlush
     ELSE /\ buffer' = <<>>
          /\ UNCHANGED <<replies, srv>>
  /\ UNCHANGED <<memberVars, mtxVars, connected, ctlVars,
                 replay, snap, oobHist, failed, lastPong, pingCb, torn,
                 recHist,
                 obsHist>>

\* subscriber::ping, under m_ping_callbacks_mutex: buffer PING, push the
\* callback
Ping(t, message, reply_callback) ==
  /\ cpc[t] = "idle"
  /\ ping_mtx = NoOwner
  /\ Len(buffer) < MaxBuf
  /\ Len(pingCb) < MaxPings
  /\ buffer' = TransportSend(buffer, IF message = "" THEN <<"PING">>
                                      ELSE <<"PING", message>>)
  /\ m_ping_callbacks' = Append(m_ping_callbacks, reply_callback)
  /\ pingCb' = Append(pingCb, [cb |-> reply_callback, msg |-> message,
                                 up |-> connected])
  /\ UNCHANGED <<flagVars, credVars, oobVars, regVars, rcVars, mtxVars,
                 connected, replies, srv, ctlVars,
                 replay, snap, oobHist, failed, lastPong, torn,
                 recHist,
                 connVars, obsHist>>

\* ping() on a thread that calls it concurrently with others, statement by
\* statement. The bounds are tested when the call starts.
\* a ping() that does not lock m_ping_callbacks_mutex
PingLockNoMutex(t, message, reply_callback) ==
  /\ pingers[t].at = "idle"
  /\ Len(buffer) + Cardinality({u \in Pingers : pingers[u].at = "send"}) < MaxPingBuf
  /\ Len(pingCb) + Cardinality({u \in Pingers : pingers[u].at # "idle"}) < MaxPings
  /\ pingers' = [pingers EXCEPT ![t] = [at |-> "send", message |-> message,
                                         reply_callback |-> reply_callback]]
  /\ UNCHANGED <<memberVars, mtxVars, netVars, hpc, cpc, rpc, failing, histVars>>

\* lock_guard lock(m_ping_callbacks_mutex)
PingLock(t, message, reply_callback) ==
  /\ pingers[t].at = "idle"
  /\ Len(buffer) + Cardinality({u \in Pingers : pingers[u].at = "send"}) < MaxPingBuf
  /\ Len(pingCb) + Cardinality({u \in Pingers : pingers[u].at # "idle"}) < MaxPings
  /\ ping_mtx = NoOwner
  /\ ping_mtx' = t
  /\ pingers' = [pingers EXCEPT ![t] = [at |-> "send", message |-> message,
                                         reply_callback |-> reply_callback]]
  /\ UNCHANGED <<memberVars, sub_mtx, psub_mtx, netVars, hpc, cpc, rpc, failing,
                 histVars>>

\* m_client.send({"PING"}) or m_client.send({"PING", message})
PingSend(t) ==
  /\ pingers[t].at = "send"
  /\ buffer' = TransportSend(buffer, IF pingers[t].message = "" THEN <<"PING">>
                                      ELSE <<"PING", pingers[t].message>>)
  /\ pingers' = [pingers EXCEPT ![t].at = "push"]
  /\ UNCHANGED <<memberVars, mtxVars, connected, replies, srv,
                 hpc, cpc, rpc, failing, histVars>>

\* m_ping_callbacks.push(reply_callback); the lock_guard is destroyed and
\* ping() returns
PingPush(t) ==
  /\ pingers[t].at = "push"
  /\ m_ping_callbacks' = Append(m_ping_callbacks, pingers[t].reply_callback)
  /\ pingCb' = Append(pingCb, [cb |-> pingers[t].reply_callback,
                                 msg |-> pingers[t].message, up |-> connected])
  /\ Unlock(t)
  /\ pingers' = [pingers EXCEPT ![t] = NoPing]
  /\ UNCHANGED <<flagVars, credVars, oobVars, regVars, rcVars,
                 netVars, hpc, cpc, rpc, failing,
                 replay, snap, oobHist, failed, lastPong, torn,
                 recHist,
                 connVars, obsHist>>

\* subscriber::clear_ping_callbacks: the queue is moved into a detached
\* thread that answers every callback with "network failure"
clear_ping_callbacks(fifo, workers) ==
  IF fifo = <<>> THEN [fifo |-> fifo, workers |-> workers]
  ELSE [fifo |-> <<>>, workers |-> workers \cup (Range(fifo) \ {Null})]

\* subscriber::disconnect, first half: m_client.disconnect
DisconnectClose(t) ==
  /\ cpc[t] = "idle"
  /\ TransportDown
  /\ cpc' = [cpc EXCEPT ![t] = "clear_ping_callbacks"]
  /\ torn' = torn \cup OutstandingCbs
  /\ UNCHANGED <<memberVars, mtxVars, hpc, rpc, failing, pingers,
                 replay, snap, oobHist, failed, lastPong, pingCb, recHist,
                 obsHist>>

\* subscriber::disconnect, second half: clear_ping_callbacks, which takes no
\* lock here
DisconnectClear(t) ==
  /\ cpc[t] = "clear_ping_callbacks"
  /\ LET r == clear_ping_callbacks(m_ping_callbacks, failing)
     IN /\ m_ping_callbacks' = r.fifo
        /\ failing' = r.workers
  /\ cpc' = [cpc EXCEPT ![t] = "idle"]
  /\ UNCHANGED <<flagVars, credVars, oobVars, regVars, rcVars, mtxVars,
                 netVars, hpc, rpc, pingers,
                 replay, snap, oobHist, failed, lastPong, pingCb, torn,
                 recHist,
                 connVars, obsHist>>

\* the detached thread of clear_ping_callbacks invokes one callback with the
\* error reply "network failure"
FailureWorker(cb) ==
  /\ cb \in failing
  /\ failing' = failing \ {cb}
  /\ failed' = failed \cup {cb}
  /\ UNCHANGED <<memberVars, mtxVars, netVars, hpc, cpc, pingers, rpc,
                 replay, snap, oobHist, lastPong, pingCb, torn,
                 recHist,
                 obsHist>>

\* ------------------------------------------------------ the receive thread
\* connection_receive_handler that tries the CLIENT SETNAME callback first
ReceiveStatusSetnameFirst ==
  /\ rpc = "idle"
  /\ replies # <<>>
  /\ Head(replies).kind = "status"
  /\ replies' = Tail(replies)
  /\ IF m_client_setname_reply_callback # Null
     THEN /\ fired' = IF m_client_setname_reply_callback \in OobCallbacks
                       THEN [fired EXCEPT ![m_client_setname_reply_callback] = @ + 1]
                       ELSE fired
          /\ rpc' = "setname_clear"
     ELSE IF m_auth_reply_callback # Null
     THEN /\ fired' = IF m_auth_reply_callback \in OobCallbacks
                       THEN [fired EXCEPT ![m_auth_reply_callback] = @ + 1]
                       ELSE fired
          /\ rpc' = "auth_clear"
     ELSE UNCHANGED <<fired, rpc>>
  /\ UNCHANGED <<memberVars, mtxVars, connected, buffer, srv, hpc, cpc, pingers,
                 failing, replay, snap, armed, pingHist, recHist,
                 obsHist>>

\* connection_receive_handler on a reply that is not an array: the armed
\* AUTH callback takes it, else the armed CLIENT SETNAME callback
ReceiveStatus ==
  /\ rpc = "idle"
  /\ replies # <<>>
  /\ Head(replies).kind = "status"
  /\ replies' = Tail(replies)
  /\ IF m_auth_reply_callback # Null
     THEN /\ fired' = IF m_auth_reply_callback \in OobCallbacks
                       THEN [fired EXCEPT ![m_auth_reply_callback] = @ + 1]
                       ELSE fired
          /\ rpc' = "auth_clear"
     ELSE IF m_client_setname_reply_callback # Null
     THEN /\ fired' = IF m_client_setname_reply_callback \in OobCallbacks
                       THEN [fired EXCEPT ![m_client_setname_reply_callback] = @ + 1]
                       ELSE fired
          /\ rpc' = "setname_clear"
     ELSE UNCHANGED <<fired, rpc>>
  /\ UNCHANGED <<memberVars, mtxVars, connected, buffer, srv, hpc, cpc, pingers,
                 failing, replay, snap, armed, pingHist, recHist,
                 obsHist>>

\* connection_receive_handler without "callback = nullptr"
ReceiveKeepsArmed ==
  /\ rpc \in {"auth_clear", "setname_clear"}
  /\ rpc' = "idle"
  /\ UNCHANGED <<memberVars, mtxVars, netVars, hpc, cpc, pingers, failing, histVars>>

\* the statement after the callback returns: the slot is set to nullptr
ReceiveDisarm ==
  /\ rpc \in {"auth_clear", "setname_clear"}
  /\ IF rpc = "auth_clear"
     THEN m_auth_reply_callback' = Null
          /\ UNCHANGED m_client_setname_reply_callback
     ELSE m_client_setname_reply_callback' = Null
          /\ UNCHANGED m_auth_reply_callback
  /\ rpc' = "idle"
  /\ UNCHANGED <<flagVars, credVars, regVars, m_ping_callbacks, rcVars,
                 mtxVars, netVars, hpc, cpc, pingers, failing, histVars,
                 connVars>>

\* subscriber::handle_ping_reply: under m_ping_callbacks_mutex the head of
\* the queue is popped; the callback, if any, is invoked after the unlock
handle_ping_reply(fifo) ==
  IF fifo # <<>> THEN [callback |-> Head(fifo), fifo |-> Tail(fifo)]
  ELSE [callback |-> Null, fifo |-> fifo]

\* connection_receive_handler on a two-element array ["pong", msg]:
\* handle_ping_reply locks m_ping_callbacks_mutex and, if the queue is not
\* empty, reads its front; on an empty queue it unlocks and returns
ReceivePong ==
  /\ rpc = "idle"
  /\ replies # <<>>
  /\ Head(replies).kind = "pong"
  /\ ping_mtx = NoOwner
  /\ replies' = Tail(replies)
  /\ lastPong' = [idx |-> Len(pingCb) - Outstanding + 1,
                  msg |-> Head(replies).msg,
                  cb |-> handle_ping_reply(m_ping_callbacks).callback]
  /\ IF m_ping_callbacks = <<>>
     THEN UNCHANGED <<ping_mtx, rpc>>
     ELSE /\ ping_mtx' = Rx
          /\ rpc' = "pong_pop"
  /\ UNCHANGED <<memberVars, sub_mtx, psub_mtx,
                 connected, buffer, srv, hpc, cpc, pingers, failing,
                 replay, snap, oobHist, failed, pingCb, torn,
                 recHist,
                 obsHist>>

\* connection_receive_handler on a ["pong", msg] that answers no ping of this
\* connection, the queue being empty: handle_ping_reply locks, finds nothing,
\* unlocks and returns
ReceiveStrayPong(msg) ==
  /\ rpc = "idle"
  /\ connected
  /\ ping_mtx = NoOwner
  /\ m_ping_callbacks = <<>>
  /\ lastPong' = [idx |-> 0, msg |-> msg,
                  cb |-> handle_ping_reply(m_ping_callbacks).callback]
  /\ UNCHANGED <<memberVars, mtxVars, netVars, ctlVars,
                 replay, snap, oobHist, failed, pingCb, torn,
                 recHist,
                 obsHist>>

\* what pop() leaves of a queue that clear_ping_callbacks has moved away
\* between front() and pop(): undefined behaviour, which leaves the queue
\* empty or with an entry that is nobody's callback
PopEmptyOutcomes == {<<>>, <<Null>>}

\* handle_ping_reply that invokes the callback inside the locked block
PongPopLocked(outcome) ==
  /\ rpc = "pong_pop"
  /\ outcome \in PopEmptyOutcomes
  /\ m_ping_callbacks # <<>> => outcome = <<>>
  /\ m_ping_callbacks' = IF m_ping_callbacks # <<>>
                         THEN handle_ping_reply(m_ping_callbacks).fifo
                         ELSE outcome
  /\ IF lastPong.cb = Null
     THEN /\ Unlock(Rx)
          /\ rpc' = "idle"
          /\ UNCHANGED lastCall
     ELSE /\ UNCHANGED mtxVars
          /\ rpc' = "pong_call"
          /\ lastCall' = [cb |-> lastPong.cb, args |-> <<lastPong.msg>>,
                          held |-> HeldNext(Rx)]
  /\ UNCHANGED <<flagVars, credVars, oobVars, regVars, rcVars,
                 netVars, hpc, cpc, pingers, failing,
                 replay, snap, oobHist, pingHist, recHist,
                 connVars, notes, requested, lastConnect>>

\* handle_ping_reply, the rest: m_ping_callbacks.pop(), the lock_guard is
\* destroyed, and the callback read from the front, if any, is invoked with
\* the reply
PongPop(outcome) ==
  /\ rpc = "pong_pop"
  /\ outcome \in PopEmptyOutcomes
  /\ m_ping_callbacks # <<>> => outcome = <<>>
  /\ m_ping_callbacks' = IF m_ping_callbacks # <<>>
                         THEN handle_ping_reply(m_ping_callbacks).fifo
                         ELSE outcome
  /\ Unlock(Rx)
  /\ IF lastPong.cb = Null
     THEN /\ rpc' = "idle"
          /\ UNCHANGED lastCall
     ELSE /\ rpc' = "pong_call"
          /\ lastCall' = [cb |-> lastPong.cb, args |-> <<lastPong.msg>>,
                          held |-> HeldNext(Rx)]
  /\ UNCHANGED <<flagVars, credVars, oobVars, regVars, rcVars,
                 netVars, hpc, cpc, pingers, failing,
                 replay, snap, oobHist, pingHist, recHist,
                 connVars, notes, requested, lastConnect>>

\* ------------------------------------------------------- array replies
\* the elements of an array reply: bulk strings and integers
StrElem(v) == [type |-> "string", val |-> v]
IntElem(n) == [type |-> "integer", val |-> n]
is_string(e) == e.type = "string"
is_integer(e) == e.type = "integer"
Payloads == {"hello"}
Counts == {1, 2}
\* the array replies a server sends to a subscriber: published messages,
\* pattern messages, the acknowledgements of (p)subscribe and (p)unsubscribe,
\* and an array that is none of these
ArrayReplies ==
  {<<StrElem("message"), StrElem(c), StrElem(m)>> : c \in Channels, m \in Payloads}
    \cup {<<StrElem("pmessage"), StrElem(pt), StrElem(c), StrElem(m)>> :
            pt \in Patterns \cup {"q"}, c \in {"x"}, m \in Payloads}
    \cup {<<StrElem(title), StrElem(c), IntElem(n)>> :
            title \in {"subscribe", "psubscribe", "unsubscribe"},
            c \in Channels \cup Patterns, n \in Counts}
    \cup {<<StrElem("message"), StrElem("x"), StrElem("hello"), StrElem("hello")>>,
           <<StrElem("pmessage"), StrElem("p"), StrElem("hello")>>}

\* what a reply handler does: the mutex it locks, if any, and the callback
\* it invokes under that mutex, if any, with its arguments
Nothing == [mutex |-> Null, cb |-> Null, args |-> <<>>]
Locks(mtx) == [mutex |-> mtx, cb |-> Null, args |-> <<>>]

\* subscriber::call_acknowledgement_callback: lock_guard on the table's
\* mutex, find, and the acknowledgement callback, if set, with nb_chans
call_acknowledgement_callback(channel, channels, channels_mtx, nb_chans) ==
  IF channel \notin DOMAIN channels THEN Locks(channels_mtx)
  ELSE IF channels[channel].acknowledgement_callback = Null THEN Locks(channels_mtx)
  ELSE [mutex |-> channels_mtx,
        cb |-> channels[channel].acknowledgement_callback,
        args |-> <<nb_chans>>]

\* handle_acknowledgement_reply that takes every title for "subscribe"
handle_acknowledgement_reply_any_title(reply, sub, psub) ==
  IF Len(reply) # 3 THEN Nothing
  ELSE call_acknowledgement_callback(reply[2].val, sub,
                                     "m_subscribed_channels_mutex", reply[3].val)

\* subscriber::handle_acknowledgement_reply
handle_acknowledgement_reply(reply, sub, psub) ==
  IF Len(reply) # 3 THEN Nothing
  ELSE IF ~is_string(reply[1]) \/ ~is_string(reply[2]) \/ ~is_integer(reply[3])
  THEN Nothing
  ELSE IF reply[1].val = "subscribe"
  THEN call_acknowledgement_callback(reply[2].val, sub,
                                     "m_subscribed_channels_mutex", reply[3].val)
  ELSE IF reply[1].val = "psubscribe"
  THEN call_acknowledgement_callback(reply[2].val, psub,
                                     "m_psubscribed_channels_mutex", reply[3].val)
  ELSE Nothing

\* subscriber::handle_subscribe_reply: under m_subscribed_channels_mutex the
\* entry of the channel is looked up and its subscribe_callback invoked
handle_subscribe_reply(reply, sub) ==
  IF Len(reply) # 3 THEN Nothing
  ELSE IF ~is_string(reply[1]) \/ ~is_string(reply[2]) \/ ~is_string(reply[3])
  THEN Nothing
  ELSE IF reply[1].val # "message" THEN Nothing
  ELSE IF reply[2].val \notin DOMAIN sub THEN Locks("m_subscribed_channels_mutex")
  ELSE [mutex |-> "m_subscribed_channels_mutex",
        cb |-> sub[reply[2].val].subscribe_callback,
        args |-> <<reply[2].val, reply[3].val>>]

\* handle_psubscribe_reply that looks the channel up instead of the pattern
handle_psubscribe_reply_by_channel(reply, psub) ==
  IF Len(reply) # 4 THEN Nothing
  ELSE IF reply[1].val # "pmessage" THEN Nothing
  ELSE IF reply[3].val \notin DOMAIN psub THEN Locks("m_psubscribed_channels_mutex")
  ELSE [mutex |-> "m_psubscribed_channels_mutex",
        cb |-> psub[reply[3].val].subscribe_callback,
        args |-> <<reply[3].val, reply[4].val>>]

\* subscriber::handle_psubscribe_reply: under m_psubscribed_channels_mutex
\* the entry of the pattern is looked up and its subscribe_callback invoked
\* with the channel and the message
handle_psubscribe_reply(reply, psub) ==
  IF Len(reply) # 4 THEN Nothing
  ELSE IF ~is_string(reply[1]) \/ ~is_string(reply[2])
          \/ ~is_string(reply[3]) \/ ~is_string(reply[4])
  THEN Nothing
  ELSE IF reply[1].val # "pmessage" THEN Nothing
  ELSE IF reply[2].val \notin DOMAIN psub THEN Locks("m_psubscribed_channels_mutex")
  ELSE [mutex |-> "m_psubscribed_channels_mutex",
        cb |-> psub[reply[2].val].subscribe_callback,
        args |-> <<reply[3].val, reply[4].val>>]

\* connection_receive_handler on an array that is not a pong: by its size and
\* the type of its third element
DispatchArray(array, sub, psub) ==
  IF Len(array) = 3 /\ is_integer(array[3])
  THEN handle_acknowledgement_reply(array, sub, psub)
  ELSE IF Len(array) = 3 /\ is_string(array[3])
  THEN handle_subscribe_reply(array, sub)
  ELSE IF Len(array) = 4
  THEN handle_psubscribe_reply(array, psub)
  ELSE Nothing

\* the owner of a mutex
Owner(mtx) ==
  CASE mtx = "m_ping_callbacks_mutex" -> ping_mtx
    [] mtx = "m_subscribed_channels_mutex" -> sub_mtx
    [] mtx = "m_psubscribed_channels_mutex" -> psub_mtx

\* the receive thread gets an array reply: the handler waits for the mutex
\* it locks; a callback it invokes runs with that mutex held
ReceiveArray(array) ==
  /\ rpc = "idle"
  /\ connected
  /\ LET d == DispatchArray(array, m_subscribed_channels, m_psubscribed_channels)
     IN /\ d.mutex # Null => Owner(d.mutex) = NoOwner
        /\ IF d.cb = Null
           THEN UNCHANGED <<mtxVars, rpc, lastCall>>
           ELSE /\ sub_mtx' = IF d.mutex = "m_subscribed_channels_mutex"
                              THEN Rx ELSE sub_mtx
                /\ psub_mtx' = IF d.mutex = "m_psubscribed_channels_mutex"
                               THEN Rx ELSE psub_mtx
                /\ UNCHANGED ping_mtx
                /\ rpc' = "callback"
                /\ lastCall' = [cb |-> d.cb, args |-> d.args, held |-> {d.mutex}]
  /\ UNCHANGED <<memberVars, netVars, hpc, cpc, pingers, failing,
                 replay, snap, oobHist, pingHist, recHist,
                 notes, requested, lastConnect>>

\* the callback returns and the lock_guard of the reply handler is destroyed
ReceiveReturn ==
  /\ rpc \in {"callback", "pong_call"}
  /\ rpc' = "idle"
  /\ Unlock(Rx)
  /\ lastCall' = NoCall
  /\ UNCHANGED <<memberVars, netVars, hpc, cpc, pingers, failing,
                 replay, snap, oobHist, pingHist, recHist,
                 notes, requested, lastConnect>>

\* ------------------------------------------------- the transport's events
\* the connection drops: the transport clears its buffer and calls
\* connection_disconnection_handler on each thread of evts
TransportDrop(evts) ==
  /\ connected
  /\ evts # {}
  /\ \A h \in evts : hpc[h] = "idle"
  /\ TransportDown
  /\ hpc' = [h \in Handlers |-> IF h \in evts THEN "entry" ELSE hpc[h]]
  /\ torn' = torn \cup OutstandingCbs
  /\ snap' = [snap EXCEPT !.dsub = m_subscribed_channels,
                          !.dpsub = m_psubscribed_channels]
  /\ begun' = 0
  /\ UNCHANGED <<memberVars, mtxVars, cpc, pingers, rpc, failing,
                 replay, oobHist, failed, lastPong, pingCb,
                 lateConnects, loopAttempts,
                 obsHist>>

\* ------------------------------------- connection_disconnection_handler
Goto(h, label) == hpc' = [hpc EXCEPT ![h] = label]

\* subscriber::is_reconnecting
is_reconnecting == m_reconnecting

\* "leave right now if we are already dealing with reconnection"
HEntry(h) ==
  /\ hpc[h] = "entry"
  /\ IF is_reconnecting THEN Goto(h, "idle") ELSE Goto(h, "begin")
  /\ UNCHANGED <<memberVars, mtxVars, netVars, cpc, pingers, rpc, failing, histVars>>

\* "initiate reconnection process": the flag, the attempt counter, and the
\* `dropped` notification
HBegin(h) ==
  /\ hpc[h] = "begin"
  /\ m_reconnecting' = TRUE
  /\ m_current_reconnect_attempts' = 0
  /\ loopAttempts' = [loopAttempts EXCEPT ![h] = 0]
  /\ begun' = begun + 1
  /\ notes' = [notes EXCEPT ![h] = Notify(m_connect_callback, <<>>, h, "dropped")]
  /\ Goto(h, "lock_ping")
  /\ UNCHANGED <<m_cancel, credVars, oobVars, regVars, m_ping_callbacks,
                 m_max_reconnects, mtxVars, netVars, cpc, pingers, rpc, failing,
                 replay, snap, oobHist, pingHist, lateConnects,
                 connVars, requested, lastConnect, lastCall>>

\* lock_guard ping_lock_callback(m_ping_callbacks_mutex);
\* clear_ping_callbacks()
HLockPing(h) ==
  /\ hpc[h] = "lock_ping"
  /\ ping_mtx = NoOwner
  /\ ping_mtx' = h
  /\ LET r == clear_ping_callbacks(m_ping_callbacks, failing)
     IN /\ m_ping_callbacks' = r.fifo
        /\ failing' = r.workers
  /\ Goto(h, "lock_sub")
  /\ UNCHANGED <<flagVars, credVars, oobVars, regVars, rcVars,
                 sub_mtx, psub_mtx, netVars, cpc, pingers, rpc,
                 replay, snap, oobHist, failed, lastPong, pingCb, torn,
                 recHist,
                 connVars, obsHist>>

\* a handler that locks the pattern mutex where it has to lock the channel
\* mutex
HLockSubTakesPattern(h) ==
  /\ hpc[h] = "lock_sub"
  /\ psub_mtx = NoOwner
  /\ psub_mtx' = h
  /\ Goto(h, "lock_psub")
  /\ UNCHANGED <<memberVars, ping_mtx, sub_mtx, netVars, cpc, pingers, rpc, failing,
                 histVars>>

\* lock_guard sub_lock_callback(m_subscribed_channels_mutex)
HLockSub(h) ==
  /\ hpc[h] = "lock_sub"
  /\ sub_mtx = NoOwner
  /\ sub_mtx' = h
  /\ Goto(h, "lock_psub")
  /\ UNCHANGED <<memberVars, ping_mtx, psub_mtx, netVars, cpc, pingers, rpc, failing,
                 histVars>>

\* lock_guard psub_lock_callback(m_psubscribed_channels_mutex)
HLockPsub(h) ==
  /\ hpc[h] = "lock_psub"
  /\ psub_mtx = NoOwner
  /\ psub_mtx' = h
  /\ Goto(h, "loop")
  /\ UNCHANGED <<memberVars, ping_mtx, sub_mtx, netVars, cpc, pingers, rpc, failing,
                 histVars>>

\* should_reconnect without the test of the cancel flag
should_reconnect_uncancelled ==
  /\ ~connected
  /\ (m_max_reconnects = -1 \/ m_current_reconnect_attempts < m_max_reconnects)

\* subscriber::should_reconnect
should_reconnect ==
  /\ ~connected
  /\ ~m_cancel
  /\ (m_max_reconnects = -1 \/ m_current_reconnect_attempts < m_max_reconnects)

\* while (should_reconnect())
HLoop(h) ==
  /\ hpc[h] = "loop"
  /\ IF should_reconnect THEN Goto(h, "sleep") ELSE Goto(h, "exit")
  /\ replay' = <<>>
  /\ snap' = IF should_reconnect
             THEN [NoSnap EXCEPT !.dsub = snap.dsub, !.dpsub = snap.dpsub]
             ELSE NoSnap
  /\ lastConnect' = NoConnect
  /\ UNCHANGED <<memberVars, mtxVars, netVars, cpc, pingers, rpc, failing,
                 oobHist, pingHist, recHist,
                 notes, requested, lastCall>>

\* subscriber::sleep_before_next_reconnect_attempt: with an interval, the
\* `sleeping` notification and the sleep
HSleep(h) ==
  /\ hpc[h] = "sleep"
  /\ notes' = IF m_reconnect_interval_ms <= 0 THEN notes
              ELSE [notes EXCEPT ![h] = Notify(m_connect_callback, @, h, "sleeping")]
  /\ Goto(h, "reconnect")
  /\ UNCHANGED <<memberVars, mtxVars, netVars, cpc, pingers, rpc, failing,
                 replay, snap, oobHist, pingHist, recHist,
                 requested, lastConnect, lastCall>>

\* a reconnect that goes to the address it has cached
ReconnectAddressCached(lookup) ==
  [host |-> m_redis_server, port |-> m_redis_port]

\* the address reconnect() connects to: with a master name, the one
\* get_master_addr_by_name has just written to m_redis_server and
\* m_redis_port; without, the cached one
ReconnectAddress(lookup) ==
  IF m_master_name # "" THEN [host |-> lookup.host, port |-> lookup.port]
  ELSE [host |-> m_redis_server, port |-> m_redis_port]

\* subscriber::reconnect up to "notify end": the attempt is counted; with a
\* master name the sentinel is asked again, and without a master the attempt
\* ends with `lookup_failed`; else connect() is called with the cached
\* members and succeeds or has its exception swallowed, and the attempt
\* notifies `failed` or `ok`
HReconnect(h, lookup, ok) ==
  /\ hpc[h] = "reconnect"
  /\ m_current_reconnect_attempts < MaxAttempts
  /\ m_current_reconnect_attempts' = m_current_reconnect_attempts + 1
  /\ loopAttempts' = [loopAttempts EXCEPT ![h] = @ + 1]
  /\ IF m_master_name # "" /\ ~lookup.found
     THEN /\ notes' = [notes EXCEPT ![h] =
                         Notify(m_connect_callback, @, h, "lookup_failed")]
          /\ UNCHANGED <<m_redis_server, m_redis_port, connected, replies, srv,
                         replay, snap, lastConnect, lateConnects>>
          /\ Goto(h, "loop")
     ELSE LET host == ReconnectAddress(lookup).host
              port == ReconnectAddress(lookup).port
              inner == ConnectNotes(m_connect_callback, notes[h], h,
                                    ~connected /\ ok)
          IN /\ m_redis_server' = host
             /\ m_redis_port' = port
             /\ lastConnect' =
                  [by |-> h,
                   args |-> [host |-> host, port |-> port,
                             connect_callback |-> m_connect_callback,
                             timeout_ms |-> m_connect_timeout_ms,
                             max_reconnects |-> m_max_reconnects,
                             reconnect_interval_ms |-> m_reconnect_interval_ms,
                             use_encryption |-> m_use_encryption]]
             /\ lateConnects' = lateConnects + (IF m_cancel THEN 1 ELSE 0)
             /\ notes' = [notes EXCEPT ![h] =
                            Notify(m_connect_callback, inner, h,
                                   IF connected \/ ok THEN "ok" ELSE "failed")]
             /\ IF connected \/ ok
                THEN /\ connected' = TRUE
                     /\ IF connected THEN UNCHANGED <<replies, srv>>
                        ELSE /\ replies' = <<>>
                             /\ srv' = [sub |-> {}, psub |-> {}]
                     /\ replay' = <<>>
                     /\ snap' = [snap EXCEPT !.sub = m_subscribed_channels,
                                             !.psub = m_psubscribed_channels]
                     /\ Goto(h, "re_auth")
                ELSE /\ UNCHANGED <<connected, replies, srv, replay, snap>>
                     /\ Goto(h, "loop")
  /\ UNCHANGED <<flagVars, credVars, oobVars, regVars, m_ping_callbacks,
                 m_max_reconnects, mtxVars, buffer, cpc, pingers, rpc, failing,
                 oobHist, failed, lastPong, pingCb, torn, begun,
                 m_master_name, m_connect_callback, m_connect_timeout_ms,
                 m_reconnect_interval_ms, m_use_encryption,
                 requested, lastCall>>

\* re_auth with its test inverted
HReAuthInverted(h) ==
  /\ hpc[h] = "re_auth"
  /\ IF m_password # ""
     THEN UNCHANGED <<m_auth_reply_callback, buffer, replay>>
     ELSE /\ m_auth_reply_callback' = ReAuthLog
          /\ buffer' = TransportSend(buffer, <<"AUTH", m_password>>)
          /\ replay' = Append(replay, <<"AUTH", m_password>>)
  /\ snap' = [snap EXCEPT !.pw = m_password]
  /\ Goto(h, "re_client_setname")
  /\ UNCHANGED <<flagVars, credVars, m_client_setname_reply_callback,
                 regVars, m_ping_callbacks, rcVars, mtxVars,
                 connected, replies, srv, cpc, pingers, rpc, failing,
                 oobHist, pingHist, recHist,
                 connVars, obsHist>>

\* subscriber::re_auth
HReAuth(h) ==
  /\ hpc[h] = "re_auth"
  /\ IF m_password = ""
     THEN UNCHANGED <<m_auth_reply_callback, buffer, replay>>
     ELSE /\ m_auth_reply_callback' = ReAuthLog
          /\ buffer' = TransportSend(buffer, <<"AUTH", m_password>>)
          /\ replay' = Append(replay, <<"AUTH", m_password>>)
  /\ snap' = [snap EXCEPT !.pw = m_password]
  /\ Goto(h, "re_client_setname")
  /\ UNCHANGED <<flagVars, credVars, m_client_setname_reply_callback,
                 regVars, m_ping_callbacks, rcVars, mtxVars,
                 connected, replies, srv, cpc, pingers, rpc, failing,
                 oobHist, pingHist, recHist,
                 connVars, obsHist>>

\* subscriber::re_client_setname
HReClientSetname(h) ==
  /\ hpc[h] = "re_client_setname"
  /\ IF m_client_name = ""
     THEN UNCHANGED <<m_client_setname_reply_callback, buffer, replay>>
     ELSE /\ m_client_setname_reply_callback' = ReSetnameLog
          /\ buffer' = TransportSend(buffer, <<"CLIENT", "SETNAME", m_client_name>>)
          /\ replay' = Append(replay, <<"CLIENT", "SETNAME", m_client_name>>)
  /\ snap' = [snap EXCEPT !.name = m_client_name]
  /\ Goto(h, "re_subscribe")
  /\ UNCHANGED <<flagVars, credVars, m_auth_reply_callback,
                 regVars, m_ping_callbacks, rcVars, mtxVars,
                 connected, replies, srv, cpc, pingers, rpc, failing,
                 oobHist, pingHist, recHist,
                 connVars, obsHist>>

RECURSIVE ReinsertAll(_, _, _, _)
\* the loops of re_subscribe: every entry of the moved-out map, in key order,
\* goes through the unprotected subscribe
ReinsertAll(order, moved, acc, psub) ==
  IF order = <<>> THEN acc
  ELSE LET k == Head(order)
           nxt == IF k \notin DOMAIN moved THEN acc
                  ELSE IF psub
                  THEN unprotected_psubscribe(acc.chans, acc.buf, k, moved[k])
                  ELSE unprotected_subscribe(acc.chans, acc.buf, k, moved[k])
       IN ReinsertAll(Tail(order), moved, nxt, psub)

\* re_subscribe whose second loop calls unprotected_subscribe
re_subscribe_same_table(sub, psub, buf) ==
  LET s == ReinsertAll(ChannelOrder, sub, [chans |-> EmptyMap, buf |-> buf], FALSE)
      ps == ReinsertAll(PatternOrder, psub, [chans |-> s.chans, buf |-> s.buf], FALSE)
  IN [sub |-> ps.chans, psub |-> EmptyMap, buf |-> ps.buf]

\* subscriber::re_subscribe: both maps are moved out (left empty) and rebuilt
re_subscribe(sub, psub, buf) ==
  LET s == ReinsertAll(ChannelOrder, sub, [chans |-> EmptyMap, buf |-> buf], FALSE)
      ps == ReinsertAll(PatternOrder, psub, [chans |-> EmptyMap, buf |-> s.buf], TRUE)
  IN [sub |-> s.chans, psub |-> ps.chans, buf |-> ps.buf]

HReSubscribe(h) ==
  /\ hpc[h] = "re_subscribe"
  /\ LET r == re_subscribe(m_subscribed_channels, m_psubscribed_channels, buffer)
     IN /\ m_subscribed_channels' = r.sub
        /\ m_psubscribed_channels' = r.psub
        /\ buffer' = r.buf
        /\ replay' = replay \o SubSeq(r.buf, Len(buffer) + 1, Len(r.buf))
  /\ Goto(h, "commit")
  /\ UNCHANGED <<flagVars, credVars, oobVars, m_ping_callbacks, rcVars,
                 mtxVars, connected, replies, srv, cpc, pingers, rpc, failing,
                 snap, oobHist, pingHist, recHist,
                 connVars, obsHist>>

\* the commit() that ends reconnect(): the replay reaches the server, or
\* commit() throws and the exception leaves the handler
HCommit(h) ==
  /\ hpc[h] = "commit"
  /\ IF connected
     THEN /\ TransportFlush
          /\ replay' = Append(replay, <<"commit">>)
          /\ Goto(h, "loop")
          /\ UNCHANGED mtxVars
     ELSE /\ buffer' = <<>>
          /\ UNCHANGED <<replies, srv, replay>>
          /\ Unlock(h)
          /\ Goto(h, "idle")
  /\ notes' = IF connected THEN notes ELSE [notes EXCEPT ![h] = <<>>]
  /\ lastConnect' = IF connected THEN lastConnect ELSE NoConnect
  /\ UNCHANGED <<memberVars, connected, cpc, pingers, rpc, failing,
                 snap, oobHist, failed, lastPong, pingCb, torn, recHist,
                 requested, lastCall>>

\* clear_subscriptions that clears the channel table only
clear_subscriptions_channels_only ==
  [sub |-> EmptyMap, psub |-> m_psubscribed_channels]

\* subscriber::clear_subscriptions
clear_subscriptions == [sub |-> EmptyMap, psub |-> EmptyMap]

\* after the loop: "if (!is_connected()) clear_subscriptions()" and the
\* `stopped` notification; the registry the test found is kept in snap
HExit(h) ==
  /\ hpc[h] = "exit"
  /\ IF ~connected
     THEN /\ m_subscribed_channels' = clear_subscriptions.sub
          /\ m_psubscribed_channels' = clear_subscriptions.psub
          /\ notes' = [notes EXCEPT ![h] =
                         Notify(m_connect_callback, @, h, "stopped")]
     ELSE UNCHANGED <<regVars, notes>>
  /\ snap' = [snap EXCEPT !.sub = m_subscribed_channels,
                          !.psub = m_psubscribed_channels]
  /\ Goto(h, "fin")
  /\ UNCHANGED <<flagVars, credVars, oobVars, m_ping_callbacks, rcVars,
                 mtxVars, netVars, cpc, pingers, rpc, failing,
                 replay, oobHist, pingHist, recHist,
                 connVars, requested, lastConnect, lastCall>>

\* "terminate reconnection": the flag is reset and the locks are released
HFin(h) ==
  /\ hpc[h] = "fin"
  /\ m_reconnecting' = FALSE
  /\ Unlock(h)
  /\ Goto(h, "idle")
  /\ loopAttempts' = [loopAttempts EXCEPT ![h] = 0]
  /\ snap' = NoSnap
  /\ notes' = [notes EXCEPT ![h] = <<>>]
  /\ UNCHANGED <<m_cancel, credVars, oobVars, regVars, m_ping_callbacks,
                 rcVars, netVars, cpc, pingers, rpc, failing,
                 replay, oobHist, pingHist, lateConnects, begun,
                 connVars, requested, lastConnect, lastCall>>

\* ------------------------------------------------------- specifications
Handler ==
  \E h \in Handlers :
    \/ HEntry(h) \/ HBegin(h) \/ HLockPing(h) \/ HLockSub(h) \/ HLockPsub(h)
    \/ HLoop(h) \/ HSleep(h)
    \/ (\E lookup \in (IF m_master_name = "" THEN {NoLookup} ELSE Lookups),
           ok \in BOOLEAN : HReconnect(h, lookup, ok))
    \/ HReAuth(h) \/ HReClientSetname(h) \/ HReSubscribe(h) \/ HCommit(h)
    \/ HExit(h) \/ HFin(h)

Drop == \E evts \in SUBSET Handlers : TransportDrop(evts)

Next ==
  \/ \E t \in Callers :
       \/ \E a \in ConnectArgs, ok \in BOOLEAN : connect(t, a, ok)
       \/ \E name \in MasterNames, a \in ConnectArgs, lookup \in Lookups,
              ok \in BOOLEAN : ConnectMaster(t, name, a, lookup, ok)
       \/ CancelReconnect(t)
       \/ \E pw \in Passwords, k \in OobCallbacks \cup {Null} :
            OobRoom /\ Auth(t, pw, k)
       \/ \E n \in ClientNames, k \in OobCallbacks \cup {Null} :
            OobRoom /\ ClientSetname(t, n, k)
       \/ \E c \in Channels, hd \in Holders : Subscribe(t, c, hd)
       \/ \E c \in Patterns, hd \in Holders : Psubscribe(t, c, hd)
       \/ \E c \in Channels : Unsubscribe(t, c)
       \/ \E c \in Patterns : Punsubscribe(t, c)
       \/ Commit(t)
       \/ \E m \in PingMsgs, k \in {Null, PingCbs[Len(pingCb) + 1]} : Ping(t, m, k)
       \/ DisconnectClose(t) \/ DisconnectClear(t)
  \/ \E t \in Pingers :
       \/ \E m \in PingMsgs, k \in {Null, PingCbs[Len(pingCb) + 1]} : PingLock(t, m, k)
       \/ PingSend(t) \/ PingPush(t)
  \/ \E cb \in failing : FailureWorker(cb)
  \/ ReceiveStatus \/ ReceiveDisarm
  \/ ReceivePong \/ (\E outcome \in PopEmptyOutcomes : PongPop(outcome))
  \/ (\E m \in PingMsgs : ReceiveStrayPong(m))
  \/ (\E array \in ArrayReplies : ReceiveArray(array)) \/ ReceiveReturn
  \/ Drop
  \/ Handler

Spec == Init /\ [][Next]_vars

\* the holders the replay scenarios register
HolderA == [subscribe_callback |-> "M1", acknowledgement_callback |-> "A1"]
HolderB == [subscribe_callback |-> "M2", acknowledgement_callback |-> Null]

\* reconnect replay: a caller that authenticates, names the connection and
\* maintains the registry while the transport drops and is re-established
NextReplay ==
  \/ \E t \in Callers :
       \/ \E ok \in BOOLEAN : Connect(t, 1, ok)
       \/ \E pw \in Passwords : OobRoom /\ Auth(t, pw, Null)
       \/ \E n \in ClientNames : OobRoom /\ ClientSetname(t, n, Null)
       \/ Subscribe(t, "x", HolderA) \/ Subscribe(t, "y", HolderB)
       \/ Psubscribe(t, "p", HolderB)
       \/ Unsubscribe(t, "x")
       \/ Punsubscribe(t, "p")
       \/ Commit(t)
  \/ TransportDrop({"h1"})
  \/ Handler

SpecReplay == Init /\ [][NextReplay]_vars

\* no disconnect event is waiting for or running its handler
Quiet == \A h \in Handlers : hpc[h] = "idle"

\* pings on an established connection, with disconnect() and transport drops;
\* the caller connects again only when no disconnect event is being handled
NextPing ==
  \/ \E t \in Callers :
       \/ \E ok \in BOOLEAN : Quiet /\ Connect(t, 1, ok)
       \/ \E m \in PingMsgs, k \in {Null, PingCbs[Len(pingCb) + 1]} :
            connected /\ Ping(t, m, k)
       \/ Commit(t)
       \/ DisconnectClose(t) \/ DisconnectClear(t)
  \/ \E cb \in failing : FailureWorker(cb)
  \/ ReceivePong \/ (\E outcome \in PopEmptyOutcomes : PongPop(outcome))
  \/ ReceiveReturn
  \/ TransportDrop({"h1"})
  \/ Handler

SpecPing == Init /\ [][NextPing]_vars

\* the reconnect loop: the caller connects with each max_reconnects, cancels,
\* and every outage is reported by one or by two disconnect events
NextReconnect ==
  \/ \E t \in Callers :
       \/ \E maxr \in MaxReconnectsArgs, ok \in BOOLEAN :
            Quiet /\ Connect(t, maxr, ok)
       \/ CancelReconnect(t)
  \/ Drop
  \/ Handler

SpecReconnect == Init /\ [][NextReconnect]_vars

\* the one-shot reply callbacks of auth() and client_setname(), with the
\* replies of the server and the replay after a drop
NextOob ==
  \/ \E t \in Callers :
       \/ \E ok \in BOOLEAN : Quiet /\ Connect(t, 1, ok)
       \/ \E pw \in Passwords, k \in OobCallbacks \cup {Null} :
            OobRoom /\ Auth(t, pw, k)
       \/ \E n \in ClientNames, k \in OobCallbacks \cup {Null} :
            OobRoom /\ ClientSetname(t, n, k)
       \/ Commit(t)
  \/ ReceiveStatus \/ ReceiveDisarm
  \/ TransportDrop({"h1"})
  \/ Handler

SpecOob == Init /\ [][NextOob]_vars

\* the caller does not wait for the reply to one request before the next
StatusPending == Len(replies) <= MaxOob

\* auth() without a callback and client_setname() with one, on a connection
\* that stays up, the server answering every committed command in order
NextSetname ==
  \/ \E t \in Callers :
       \/ Quiet /\ ~connected /\ Connect(t, 1, TRUE)
       \/ \E pw \in Passwords :
            connected /\ StatusPending /\ Auth(t, pw, Null)
       \/ \E n \in ClientNames, k \in OobCallbacks :
            connected /\ StatusPending /\ ClientSetname(t, n, k)
       \/ connected /\ Commit(t)
  \/ ReceiveStatus \/ ReceiveDisarm

SpecSetname == Init /\ [][NextSetname]_vars

\* the registry against the server: the caller subscribes, unsubscribes and
\* commits on an established connection while outages come and go
NextRegistry ==
  \/ \E t \in Callers :
       \/ \E ok \in BOOLEAN : Quiet /\ Connect(t, 1, ok)
       \/ connected /\ Subscribe(t, "x", HolderA)
       \/ connected /\ Psubscribe(t, "p", HolderB)
       \/ connected /\ Unsubscribe(t, "x")
       \/ connected /\ Punsubscribe(t, "p")
       \/ connected /\ Commit(t)
  \/ Drop
  \/ Handler

SpecRegistry == Init /\ [][NextRegistry]_vars

\* the arguments of a caller that passes a connect callback
ArgsWithCallback == [DefaultArgs EXCEPT !.connect_callback = ConnectCb]

\* outages seen through the connect callback: the caller connects with a
\* callback, a retry budget, an interval and a timeout, registers a channel
\* and a pattern, and may cancel; the transport drops and the handler runs
NextOutage ==
  \/ \E t \in Callers :
       \/ \E maxr \in {0, 1, 2}, iv \in IntervalArgs, tmo \in TimeoutArgs,
              ok \in BOOLEAN :
            Quiet /\ connect(t, [ArgsWithCallback EXCEPT
                                   !.max_reconnects = maxr,
                                   !.reconnect_interval_ms = iv,
                                   !.timeout_ms = tmo], ok)
       \/ CancelReconnect(t)
       \/ connected /\ Subscribe(t, "x", HolderA)
       \/ connected /\ Psubscribe(t, "p", HolderB)
       \/ connected /\ Commit(t)
  \/ Drop
  \/ Handler

SpecOutage == Init /\ [][NextOutage]_vars

\* the dispatch of array replies: the caller connects with a callback,
\* maintains the registry and pings; the server publishes and acknowledges;
\* the transport drops and the handler reconnects
NextDispatch ==
  \/ \E t \in Callers :
       \/ \E ok \in BOOLEAN :
            Quiet /\ connect(t, [ArgsWithCallback EXCEPT !.max_reconnects = 1], ok)
       \/ connected /\ Subscribe(t, "x", HolderA)
       \/ connected /\ Subscribe(t, "y", HolderB)
       \/ connected /\ Psubscribe(t, "p", HolderA)
       \/ connected /\ Unsubscribe(t, "x")
       \/ connected /\ Punsubscribe(t, "p")
       \/ connected /\ Ping(t, "a", Null)
       \/ connected /\ Commit(t)
  \/ (\E array \in ArrayReplies : ReceiveArray(array)) \/ ReceiveReturn
  \/ ReceivePong \/ (\E outcome \in PopEmptyOutcomes : PongPop(outcome))
  \/ TransportDrop({"h1"})
  \/ Handler

SpecDispatch == Init /\ [][NextDispatch]_vars

\* reconnects through the sentinel: the caller connects by master name with
\* a callback; at every lookup the sentinel knows no master or names one of
\* the addresses
NextSentinel ==
  \/ \E t \in Callers :
       \/ \E name \in MasterNames, maxr \in {1, 2}, lookup \in Lookups,
              ok \in BOOLEAN :
            Quiet /\ ConnectMaster(t, name,
                                   [ArgsWithCallback EXCEPT !.max_reconnects = maxr],
                                   lookup, ok)
       \/ CancelReconnect(t)
  \/ TransportDrop({"h1"})
  \/ Handler

SpecSentinel == Init /\ [][NextSentinel]_vars

\* the callback each concurrent ping() passes with its message: none with
\* the empty message
CbOf == [m \in PingMsgs |-> IF m = "" THEN Null ELSE "P1"]

\* concurrent pings: two threads call ping() on an established connection,
\* statement by statement, the caller commits and the server answers
NextPingers ==
  \/ \E t \in Callers :
       \/ \E ok \in BOOLEAN : Quiet /\ Connect(t, 1, ok)
       \/ connected /\ Commit(t)
  \/ \E t \in Pingers :
       \/ \E m \in PingMsgs : connected /\ PingLock(t, m, CbOf[m])
       \/ PingSend(t) \/ PingPush(t)
  \/ ReceivePong \/ (\E outcome \in PopEmptyOutcomes : PongPop(outcome))
  \/ ReceiveStrayPong("a")
  \/ ReceiveReturn

SpecPingers == Init /\ [][NextPingers]_vars

\* the mutexes: the caller registers a channel and a pattern, a thread pings
\* without a callback, the server publishes and answers, and every outage is
\* reported by one or by two disconnect events
NextLocks ==
  \/ \E t \in Callers :
       \/ \E ok \in BOOLEAN : Quiet /\ Connect(t, 1, ok)
       \/ connected /\ Subscribe(t, "x", HolderA)
       \/ connected /\ Psubscribe(t, "p", HolderB)
       \/ connected /\ Commit(t)
  \/ connected /\ PingLock("u1", "", CbOf[""])
  \/ PingSend("u1") \/ PingPush("u1")
  \/ ReceiveArray(<<StrElem("message"), StrElem("x"), StrElem("hello")>>)
  \/ ReceiveArray(<<StrElem("pmessage"), StrElem("p"), StrElem("x"), StrElem("hello")>>)
  \/ ReceiveReturn
  \/ ReceivePong \/ (\E outcome \in PopEmptyOutcomes : PongPop(outcome))
  \/ TransportDrop({"h1"}) \/ TransportDrop(Handlers)
  \/ Handler

SpecLocks == Init /\ [][NextLocks]_vars

\* ---------------------------------------------------------- pings (C3, C4)
\* the reconnecting flag is set although no handler thread is past its entry
StaleFlag == m_reconnecting /\ \A h \in Handlers : hpc[h] \in {"idle", "entry"}

\* C3: the pong that answers the i-th ping, a ping issued on an established
\* connection, invokes the callback of that ping
C3_PongInvokesItsCallback ==
  (lastPong.idx > 0 /\ pingCb[lastPong.idx].up) =>
    lastPong.cb = pingCb[lastPong.idx].cb

\* the FIFO order holds as long as no handler has left the flag set
C3_OrderUnlessStale == StaleFlag \/ C3_PongInvokesItsCallback

\* C4: once disconnect() and the disconnect handlers have returned, every
\* callback of a ping that was unanswered at a teardown has been handed to
\* the "network failure" delivery and is no longer in the FIFO
C4_TornPingsFail ==
  ((\A h \in Handlers : hpc[h] = "idle") /\ (\A t \in Callers : cpc[t] = "idle")) =>
    /\ torn \subseteq failing \cup failed
    /\ torn \cap Range(m_ping_callbacks) = {}

C4_FailUnlessStale == StaleFlag \/ C4_TornPingsFail

\* ------------------------------------------------------ the replay (C1, C2)
\* the commands the replay has to send for the values it started from
ExpectedReplay ==
  (IF snap.pw = "" THEN <<>> ELSE <<<<"AUTH", snap.pw>>>>)
    \o (IF snap.name = "" THEN <<>> ELSE <<<<"CLIENT", "SETNAME", snap.name>>>>)
    \o SeqMap(ChannelOrder, snap.sub, "SUBSCRIBE")
    \o SeqMap(PatternOrder, snap.psub, "PSUBSCRIBE")
\* handler h has just committed its replay
Replayed(h) ==
  hpc[h] = "loop" /\ replay # <<>> /\ replay[Len(replay)] = <<"commit">>
\* the number of commands <<op, name>> in the replay log
SentBy(log, op, name) == Cardinality({i \in DOMAIN log : log[i] = <<op, name>>})

C2_ReplayComplete ==
  \A h \in Handlers :
    Replayed(h) =>
      /\ \A c \in Channels :
           SentBy(replay, "SUBSCRIBE", c) = IF c \in DOMAIN snap.sub THEN 1 ELSE 0
      /\ \A c \in Patterns :
           SentBy(replay, "PSUBSCRIBE", c) = IF c \in DOMAIN snap.psub THEN 1 ELSE 0
      /\ \A c \in Patterns : SentBy(replay, "SUBSCRIBE", c) = 0
      /\ \A c \in Channels : SentBy(replay, "PSUBSCRIBE", c) = 0
      /\ m_subscribed_channels = snap.sub
      /\ m_psubscribed_channels = snap.psub

C2_Witness ==
  /\ Replayed("h1")
  /\ DOMAIN snap.sub = {"x", "y"}
  /\ DOMAIN snap.psub = {"p"}
  /\ m_subscribed_channels["x"] = HolderA
  /\ m_subscribed_channels["y"] = HolderB
  /\ m_psubscribed_channels["p"] = HolderB

\* C2 as stated: the replay sends exactly the names that were in the registry
\* at the moment of the disconnect, and the registry is as it was then
C2_AtDisconnect ==
  \A h \in Handlers :
    Replayed(h) =>
      /\ \A c \in Channels :
           SentBy(replay, "SUBSCRIBE", c) = IF c \in DOMAIN snap.dsub THEN 1 ELSE 0
      /\ \A c \in Patterns :
           SentBy(replay, "PSUBSCRIBE", c) = IF c \in DOMAIN snap.dpsub THEN 1 ELSE 0
      /\ m_subscribed_channels = snap.dsub
      /\ m_psubscribed_channels = snap.dpsub

\* ------------------------------------------- the registry during reconnects
\* a caller's subscribe, psubscribe, unsubscribe or punsubscribe takes effect
CallerSubscription ==
  \E t \in Callers :
    \/ \E c \in Channels, hd \in Holders : Subscribe(t, c, hd)
    \/ \E c \in Patterns, hd \in Holders : Psubscribe(t, c, hd)
    \/ \E c \in Channels : Unsubscribe(t, c) /\ c \in DOMAIN m_subscribed_channels
    \/ \E c \in Patterns : Punsubscribe(t, c) /\ c \in DOMAIN m_psubscribed_channels

\* C5: while the reconnecting flag is true no subscribe, psubscribe,
\* unsubscribe or punsubscribe of the caller changes the registry or buffers
\* its command
C5_NoCallerSubscriptionWhileReconnecting ==
  [][m_reconnecting => ~CallerSubscription]_vars

\* the table locks do what the flag does not: while a handler holds the lock
\* of a table, no caller operation changes that table
C5_LockedTablesKeep ==
  [][/\ sub_mtx # NoOwner => UNCHANGED m_subscribed_channels \/ (\E h \in Handlers : hpc[h] \in {"re_subscribe", "exit"})
     /\ psub_mtx # NoOwner => UNCHANGED m_psubscribed_channels \/ (\E h \in Handlers : hpc[h] \in {"re_subscribe", "exit"})]_vars

\* ----------------------------------------------- the reconnect loop (C6, C7, C10)
\* C6: the disconnect events of one outage start one reconnect loop: the
\* handler gets past its entry check (resets the counter, notifies `dropped`
\* and runs the loop) at most once per outage
C6_OneLoopPerOutage == begun <= 1

\* C7 as stated: no transport connect is started by the loop after the
\* cancel flag is set
C7_NoConnectAfterCancel == lateConnects = 0

\* C7 as amended: after the cancel flag is set the loop starts at most one
\* more transport connect, that of the iteration which had already passed its
\* should_reconnect check, and no handler then enters another iteration
C7_OneConnectAfterCancel ==
  /\ lateConnects <= 1
  /\ lateConnects = 1 => \A h \in Handlers : hpc[h] \notin {"sleep", "reconnect"}

C7_Witness ==
  /\ m_cancel
  /\ lateConnects = 1
  /\ hpc["h1"] = "exit"

\* C10: within one reconnect loop the number of attempts never exceeds
\* max_reconnects when max_reconnects >= 0 (none when it is 0)
C10_AttemptsBounded ==
  \A h \in Handlers :
    m_max_reconnects >= 0 => loopAttempts[h] <= m_max_reconnects

\* ------------------------------------------------ one-shot callbacks (C8)
\* the slots that hold callback k and are not being delivered right now
Holding(k) ==
  (IF m_auth_reply_callback = k /\ rpc # "auth_clear" THEN 1 ELSE 0)
    + (IF m_client_setname_reply_callback = k /\ rpc # "setname_clear"
       THEN 1 ELSE 0)

\* C8 as amended: a callback is invoked at most once per arm, and a slot
\* that has delivered its callback no longer holds it, so that a later
\* non-array reply does not invoke it again
C8_AtMostOncePerArm ==
  \A k \in OobCallbacks : fired[k] + Holding(k) <= armed[k]

C8_Witness ==
  /\ armed["K1"] = 1
  /\ fired["K1"] = 1
  /\ m_auth_reply_callback = Null
  /\ rpc = "idle"
  /\ replies # <<>>

\* C8 as stated: an armed callback is not lost: it leaves its slot only by
\* the delivery of a reply, never by a later auth()/client_setname() call or
\* by the replay of a reconnect
C8_ArmedUntilFired ==
  [][\A k \in OobCallbacks :
       /\ (m_auth_reply_callback = k /\ m_auth_reply_callback' # k)
            => rpc = "auth_clear"
       /\ (m_client_setname_reply_callback = k
             /\ m_client_setname_reply_callback' # k)
            => rpc = "setname_clear"]_vars

\* ------------------------------------------ the registry and the server (C9)
\* every buffered command has been committed and no handler is at work
Committed == connected /\ buffer = <<>> /\ Quiet

\* C9: after a successful commit() the names in the channel table and in
\* the pattern table are the channels and the patterns the server holds for
\* the current connection
C9_RegistryMatchesServer ==
  Committed =>
    /\ DOMAIN m_subscribed_channels = srv.sub
    /\ DOMAIN m_psubscribed_channels = srv.psub

\* --------------------------------------------- the end of the loop (C11)
\* handler h executes the test "if (!is_connected())" that follows the loop
ExitTest(h) == hpc[h] = "exit" /\ hpc'[h] = "fin"
\* handler h executes "m_reconnecting = false" and returns
Terminates(h) == hpc[h] = "fin" /\ hpc'[h] = "idle"

\* C11: a handler whose loop has ended and that finds the transport
\* disconnected empties both tables and notifies `stopped`, once in its run;
\* one that finds it connected leaves both tables as they are and notifies
\* nothing; in both cases the reconnecting flag is false when it returns
C11_GiveUpClearsAndStops ==
  [][\A h \in Handlers :
       /\ (ExitTest(h) /\ ~connected) =>
            /\ m_subscribed_channels' = EmptyMap
            /\ m_psubscribed_channels' = EmptyMap
            /\ m_connect_callback # Null =>
                 /\ States(notes'[h]) = Append(States(notes[h]), "stopped")
                 /\ "stopped" \notin Range(States(notes[h]))
       /\ (ExitTest(h) /\ connected) => UNCHANGED <<regVars, notes>>
       /\ Terminates(h) => ~m_reconnecting']_vars

\* the handler has given up on a registry that held a channel and a pattern
C11_Witness ==
  /\ hpc["h1"] = "fin"
  /\ ~connected
  /\ DOMAIN snap.sub = {"x"}
  /\ DOMAIN snap.psub = {"p"}
  /\ m_subscribed_channels = EmptyMap
  /\ m_psubscribed_channels = EmptyMap
  /\ States(notes["h1"])[Len(States(notes["h1"]))] = "stopped"

\* ------------------------------------------ callbacks and the locks (C12)
\* the notifications of a log that were made with a mutex held
NotifiedUnderLock(log) ==
  {i \in DOMAIN log : log[i].state \notin Marks /\ log[i].held # {}}

\* C12: no user callback runs while the thread that invokes it holds the
\* channel, the pattern or the ping mutex: neither a message or
\* acknowledgement callback on the receive thread nor a connect-state
\* notification on a handler or caller thread
C12_NoCallbackUnderLock ==
  /\ rpc = "callback" => lastCall.held = {}
  /\ \A th \in Callers \cup Handlers : NotifiedUnderLock(notes[th]) = {}

\* ------------------------------------- the notifications of connect() (C13)
\* every entry of a log, notifications and marks, in order
Events(log) == [i \in DOMAIN log |-> log[i].state]
\* caller t runs connect(host, port, ...) with a connect callback: its log is
\* rewritten, and not by a connect(name, ...) that found no master
CallsConnect(t) ==
  /\ notes'[t] # notes[t]
  /\ notes'[t] # <<Mark(t, "throw")>>
  /\ m_connect_callback' # Null

\* C13: connect(host, port, cb, ...) notifies `start`, then calls the
\* transport's connect, then notifies `ok`; when the handshake fails the
\* exception leaves connect() and `ok` is not notified
C13_StartConnectOk ==
  [][\A t \in Callers :
       CallsConnect(t) =>
         Events(notes'[t]) =
           IF connected' THEN <<"start", "m_client.connect", "ok">>
           ELSE <<"start", "m_client.connect", "throw">>]_vars

\* a connect() whose handshake failed
C13_Witness ==
  /\ ~connected
  /\ m_connect_callback = ConnectCb
  /\ Events(notes["t1"]) = <<"start", "m_client.connect", "throw">>
  /\ States(notes["t1"]) = <<"start">>

\* ------------------------------------------ unsubscribe, punsubscribe (C14)
\* table t without the entry of name k, the other entries as they are
Without(t, k) == [n \in (DOMAIN t) \ {k} |-> t[n]]

\* C14: unsubscribe(c) on a channel that is not in the channel table, and
\* punsubscribe(p) on a pattern that is not in the pattern table, buffer
\* nothing and leave both tables and the buffer as they are; on a name that
\* is present they buffer exactly one UNSUBSCRIBE c (PUNSUBSCRIBE p) and
\* remove exactly that entry
C14_UnsubscribeExact ==
  [][\A t \in Callers :
       /\ \A c \in Channels :
            Unsubscribe(t, c) =>
              IF c \in DOMAIN m_subscribed_channels
              THEN /\ buffer' = buffer \o <<<<"UNSUBSCRIBE", c>>>>
                   /\ m_subscribed_channels' = Without(m_subscribed_channels, c)
                   /\ UNCHANGED m_psubscribed_channels
              ELSE UNCHANGED <<regVars, buffer>>
       /\ \A pt \in Patterns :
            Punsubscribe(t, pt) =>
              IF pt \in DOMAIN m_psubscribed_channels
              THEN /\ buffer' = buffer \o <<<<"PUNSUBSCRIBE", pt>>>>
                   /\ m_psubscribed_channels' = Without(m_psubscribed_channels, pt)
                   /\ UNCHANGED m_subscribed_channels
              ELSE UNCHANGED <<regVars, buffer>>]_vars

\* x has been unsubscribed and its command is buffered; y and p are kept
C14_Witness ==
  /\ buffer = <<<<"UNSUBSCRIBE", "x">>>>
  /\ DOMAIN m_subscribed_channels = {"y"}
  /\ m_subscribed_channels["y"] = HolderB
  /\ DOMAIN m_psubscribed_channels = {"p"}

\* -------------------------------------------- the buffer and commit (C15)
\* sequence a is the beginning of sequence b
IsPrefix(a, b) == Len(a) <= Len(b) /\ SubSeq(b, 1, Len(a)) = a
\* the server has got something on a connection that stays up
WireMoves ==
  connected /\ connected' /\ (srv' # srv \/ Len(replies') > Len(replies))
\* the whole buffer goes to the server, in order, and the buffer is empty
Flushed ==
  /\ buffer' = <<>>
  /\ srv' = ServerApply(srv, buffer)
  /\ replies' = replies \o RepliesTo(buffer)

C16_ReconnectUsesCallersParameters ==
  lastConnect.by \in Handlers =>
    /\ lastConnect.args.port = requested.args.port
    /\ lastConnect.args.use_encryption = requested.args.use_encryption
    /\ lastConnect.args.max_reconnects = requested.args.max_reconnects
    /\ lastConnect.args.reconnect_interval_ms = requested.args.reconnect_interval_ms
    /\ lastConnect.args.timeout_ms = requested.args.timeout_ms
    /\ m_master_name = "" => lastConnect.args.host = requested.args.host

\* all parameters but the timeout are the caller's
C16_AllButTimeout ==
  lastConnect.by \in Handlers =>
    /\ lastConnect.args.port = requested.args.port
    /\ lastConnect.args.use_encryption = requested.args.use_encryption
    /\ lastConnect.args.max_reconnects = requested.args.max_reconnects
    /\ lastConnect.args.reconnect_interval_ms = requested.args.reconnect_interval_ms
    /\ lastConnect.args.timeout_ms = 0
    /\ m_master_name = "" => lastConnect.args.host = requested.args.host

\* ------------------------------------ AUTH before CLIENT SETNAME (C17)
\* the receive thread takes a reply that is not an array
StatusDelivered ==
  /\ rpc = "idle"
  /\ replies # <<>>
  /\ Head(replies).kind = "status"
  /\ replies' = Tail(replies)
  /\ connected'
\* the invocation counts after one more invocation of callback k
FiredOnce(k) ==
  IF k \in OobCallbacks THEN [fired EXCEPT ![k] = @ + 1] ELSE fired

\* C17: a reply that is not an array goes to the AUTH callback and to it
\* alone when one is armed, whether or not a CLIENT SETNAME callback is armed
\* too; the AUTH slot is then cleared and the CLIENT SETNAME slot stays armed,
\* so that the next such reply goes to the CLIENT SETNAME callback alone;
\* with neither armed the reply invokes nothing and changes nothing
C17_AuthThenSetname ==
  [][/\ StatusDelivered =>
          /\ UNCHANGED <<memberVars, mtxVars>>
          /\ IF m_auth_reply_callback # Null
             THEN rpc' = "auth_clear" /\ fired' = FiredOnce(m_auth_reply_callback)
             ELSE IF m_client_setname_reply_callback # Null
             THEN /\ rpc' = "setname_clear"
                  /\ fired' = FiredOnce(m_client_setname_reply_callback)
             ELSE UNCHANGED <<rpc, fired>>
     /\ (rpc = "auth_clear" /\ rpc' = "idle") =>
          /\ m_auth_reply_callback' = Null
          /\ UNCHANGED m_client_setname_reply_callback
     /\ (rpc = "setname_clear" /\ rpc' = "idle") =>
          /\ m_client_setname_reply_callback' = Null
          /\ UNCHANGED m_auth_reply_callback]_vars

\* a replay has armed both callbacks and committed AUTH and CLIENT SETNAME;
\* of the two replies the first is with the AUTH callback, the second is
\* still on its way
C17_Witness ==
  /\ Replayed("h1")
  /\ replay = <<<<"AUTH", "pw">>, <<"CLIENT", "SETNAME", "svc">>, <<"commit">>>>
  /\ rpc = "auth_clear"
  /\ m_auth_reply_callback = ReAuthLog
  /\ m_client_setname_reply_callback = ReSetnameLog
  /\ Len(replies) = 1
  /\ Head(replies).kind = "status"

\* ------------------------------------------- message and pmessage (C18)
\* what the receive handler does with an array reply in the current state
Dispatched(array) ==
  DispatchArray(array, m_subscribed_channels, m_psubscribed_channels)

\* C18: ["message", c, payload] invokes the message handler registered for
\* channel c with (c, payload) if c is in the channel table and nothing
\* otherwise; ["pmessage", p, c, payload] invokes the message handler
\* registered for pattern p with (c, payload) if p is in the pattern table
\* and nothing otherwise
C18_MessageDispatch ==
  /\ \A c \in Channels, m \in Payloads :
       LET d == Dispatched(<<StrElem("message"), StrElem(c), StrElem(m)>>)
       IN IF c \in DOMAIN m_subscribed_channels
          THEN /\ d.cb = m_subscribed_channels[c].subscribe_callback
               /\ d.args = <<c, m>>
          ELSE d.cb = Null
  /\ \A pt \in Patterns \cup {"q"}, c \in Channels, m \in Payloads :
       LET d == Dispatched(<<StrElem("pmessage"), StrElem(pt), StrElem(c), StrElem(m)>>)
       IN IF pt \in DOMAIN m_psubscribed_channels
          THEN /\ d.cb = m_psubscribed_channels[pt].subscribe_callback
               /\ d.args = <<c, m>>
          ELSE d.cb = Null
  /\ rpc = "callback" => lastCall.cb # Null

\* a message published on x, to which nobody subscribed, matched pattern p:
\* the handler of p is running with (x, hello)
C18_Witness ==
  /\ rpc = "callback"
  /\ "x" \notin DOMAIN m_subscribed_channels
  /\ "p" \in DOMAIN m_psubscribed_channels
  /\ m_psubscribed_channels["p"] = HolderA
  /\ lastCall.cb = "M1"
  /\ lastCall.args = <<"x", "hello">>

\* ------------------------------------------------ acknowledgements (C19)
\* the acknowledgement callback the table holds for a name, if any
AckHandler(table, name) ==
  IF name \in DOMAIN table THEN table[name].acknowledgement_callback ELSE Null
\* the message handlers of the registry
MessageHandlers ==
  {m_subscribed_channels[c].subscribe_callback : c \in DOMAIN m_subscribed_channels}
    \cup {m_psubscribed_channels[pt].subscribe_callback :
            pt \in DOMAIN m_psubscribed_channels}

\* C19: a three-element array whose third element is the integer n invokes
\* the acknowledgement handler of the named entry with n, the entry of the
\* channel table when the title is "subscribe" and of the pattern table when
\* it is "psubscribe"; it invokes nothing when the entry is missing, when it
\* has no acknowledgement handler, or when the title is another one; it never
\* invokes a message handler
C19_AckDispatch ==
  \A title \in {"subscribe", "psubscribe", "unsubscribe"},
     name \in Channels \cup Patterns, n \in Counts :
    LET d == Dispatched(<<StrElem(title), StrElem(name), IntElem(n)>>)
        expected == CASE title = "subscribe" -> AckHandler(m_subscribed_channels, name)
                      [] title = "psubscribe" -> AckHandler(m_psubscribed_channels, name)
                      [] OTHER -> Null
    IN /\ d.cb = expected
       /\ d.cb # Null => d.args = <<n>>
       /\ d.cb \notin MessageHandlers

\* the server acknowledged the subscription to x with the count 2: the
\* acknowledgement handler of x is running with 2
C19_Witness ==
  /\ rpc = "callback"
  /\ m_subscribed_channels["x"] = HolderA
  /\ lastCall.cb = "A1"
  /\ lastCall.args = <<2>>
  /\ lastCall.held = {"m_subscribed_channels_mutex"}

\* --------------------------------------- reconnects by master name (C20)
\* C20: with a master name set, a reconnect attempt asks the sentinel anew
\* and calls the transport's connect with the address it answers; when the
\* sentinel knows no master the attempt notifies `lookup_failed`, calls no
\* transport connect, is counted all the same, and the handler goes back to
\* the test of its loop
C20_LookupEveryAttempt ==
  [][\A h \in Handlers, lookup \in Lookups, ok \in BOOLEAN :
       (m_master_name # "" /\ HReconnect(h, lookup, ok)) =>
         /\ m_current_reconnect_attempts' = m_current_reconnect_attempts + 1
         /\ IF lookup.found
            THEN /\ lastConnect'.by = h
                 /\ lastConnect'.args.host = lookup.host
                 /\ lastConnect'.args.port = lookup.port
                 /\ "m_client.connect" \in Range(Events(notes'[h]))
            ELSE /\ Events(notes'[h]) = Append(Events(notes[h]), "lookup_failed")
                 /\ UNCHANGED <<connected, lastConnect>>
                 /\ hpc'[h] = "loop"]_vars

\* after a lookup that failed, the second attempt of the loop has connected
\* to the master the sentinel named, which is not the one of the caller's
\* connect()
C20_Witness ==
  /\ m_master_name = "mymaster"
  /\ loopAttempts["h1"] = 2
  /\ States(notes["h1"]) = <<"dropped", "lookup_failed", "start", "ok", "ok">>
  /\ requested.args.host = "127.0.0.1"
  /\ lastConnect.by = "h1"
  /\ lastConnect.args.host = "10.0.0.2"
  /\ connected

\* ------------------------------- the notifications of a handler run (C21)
\* the states with which one iteration of the loop may end
Outcomes == {"lookup_failed", "failed", "ok"}

RECURSIVE ClaimedIterations(_)
\* the notifications after `dropped` are, as far as the run has got,
\* iterations of `sleeping` and one outcome each, and at the end `stopped`
ClaimedIterations(s) ==
  IF s = <<>> \/ s = <<"stopped">> \/ s = <<"sleeping">> THEN TRUE
  ELSE /\ Len(s) >= 2
       /\ s[1] = "sleeping"
       /\ s[2] \in Outcomes
       /\ ClaimedIterations(SubSeq(s, 3, Len(s)))

RECURSIVE NotifiedIterations(_, _)
\* what sleep_before_next_reconnect_attempt, reconnect and the connect() it
\* calls notify: `sleeping` when there is an interval, then `lookup_failed`,
\* or `start` and `failed`, or `start` and `ok` and `ok` again; at the end
\* `stopped`
NotifiedIterations(s, sleeps) ==
  IF s = <<>> \/ s = <<"stopped">> \/ (sleeps /\ s = <<"sleeping">>) THEN TRUE
  ELSE /\ sleeps => s[1] = "sleeping"
       /\ LET r == IF sleeps THEN Tail(s) ELSE s
          IN /\ r # <<>>
             /\ \/ r[1] = "lookup_failed" /\ NotifiedIterations(Tail(r), sleeps)
                \/ /\ Len(r) >= 2
                   /\ r[1] = "start"
                   /\ r[2] = "failed"
                   /\ NotifiedIterations(SubSeq(r, 3, Len(r)), sleeps)
                \/ /\ Len(r) >= 3
                   /\ r[1] = "start"
                   /\ r[2] = "ok"
                   /\ r[3] = "ok"
                   /\ NotifiedIterations(SubSeq(r, 4, Len(r)), sleeps)

\* C21: what a handler run notifies is `dropped`, then per iteration
\* `sleeping` and exactly one of `lookup_failed`, `failed`, `ok`, then
\* `stopped` if and only if the test after the loop finds the transport
\* disconnected; a successful reconnect notifies `ok` once
C21_NotificationSequence ==
  [][\A h \in Handlers :
       notes'[h] # <<>> =>
         /\ Head(States(notes'[h])) = "dropped"
         /\ ClaimedIterations(Tail(States(notes'[h])))
         /\ ExitTest(h) =>
              ("stopped" \in Range(States(notes'[h])) <=> ~connected)]_vars

\* what the run does notify
C21_NotifiedSequence ==
  \A h \in Handlers :
    notes[h] # <<>> =>
      /\ Head(States(notes[h])) = "dropped"
      /\ NotifiedIterations(Tail(States(notes[h])), m_reconnect_interval_ms > 0)

\* ------------------------------------------- concurrent pings (C22)
\* the message of a buffered PING command
PingMessage(c) == IF Len(c) = 2 THEN c[2] ELSE ""
\* the messages of the pings that await their pong, oldest first: the pong
\* the receive thread is handling, the pongs on their way, the PINGs buffered
Awaited ==
  LET pongs == SelectSeq(replies, LAMBDA r : r.kind = "pong")
      pings == SelectSeq(buffer, LAMBDA c : c[1] = "PING")
  IN (IF rpc = "pong_pop" THEN <<lastPong.msg>> ELSE <<>>)
       \o [i \in DOMAIN pongs |-> pongs[i].msg]
       \o [i \in DOMAIN pings |-> PingMessage(pings[i])]

\* C22: whatever the interleaving of the ping() calls of several threads,
\* the callbacks in the ping FIFO are, in the same order, those of the PING
\* commands buffered or sent and not yet answered; only the call that holds
\* the ping mutex may have buffered its PING and not yet pushed its callback
C22_PingOrder ==
  LET expected == [i \in DOMAIN Awaited |-> CbOf[Awaited[i]]]
  IN m_ping_callbacks =
       IF \E t \in Pingers : pingers[t].at = "push"
       THEN SubSeq(expected, 1, Len(expected) - 1)
       ELSE expected

\* two pings of two threads are buffered in the order of their callbacks,
\* the second thread still inside its locked block
C22_Witness ==
  /\ buffer = <<<<"PING", "a">>, <<"PING">>>>
  /\ m_ping_callbacks = <<"P1">>
  /\ pingers["u2"].at = "push"
  /\ pingers["u1"].at = "idle"
  /\ ping_mtx = "u2"

\* ------------------------------------------------------- pongs (C23)
\* the receive thread takes a pong and finds the ping FIFO empty
PongOnEmptyFifo ==
  /\ rpc = "idle"
  /\ m_ping_callbacks = <<>>
  /\ lastPong' # lastPong
\* the receive thread leaves the locked block of handle_ping_reply
PongPopped == rpc = "pong_pop" /\ rpc' # "pong_pop"

\* C23: a pong removes the head of the ping FIFO and nothing else, whether
\* the head is a callback or none; the callback, if any, is invoked with the
\* ping mutex released, and a head that is none is consumed without a call;
\* a pong that finds the FIFO empty invokes nothing and changes nothing
C23_PongPopsHead ==
  [][/\ PongPopped =>
          /\ m_ping_callbacks' = Tail(m_ping_callbacks)
          /\ ping_mtx' = NoOwner
          /\ IF Head(m_ping_callbacks) = Null
             THEN rpc' = "idle" /\ UNCHANGED lastCall
             ELSE /\ rpc' = "pong_call"
                  /\ lastCall'.cb = Head(m_ping_callbacks)
                  /\ lastCall'.held = {}
     /\ PongOnEmptyFifo =>
          UNCHANGED <<memberVars, mtxVars, netVars, rpc, failing, lastCall>>]_vars

\* the ping without a callback has consumed its own pong; the callback of the
\* second ping is at the head for the pong that is on its way
C23_Witness ==
  /\ rpc = "idle"
  /\ Len(pingCb) = 2
  /\ pingCb[1].cb = Null
  /\ pingCb[2].cb = "P1"
  /\ lastPong.idx = 1
  /\ lastPong.cb = Null
  /\ m_ping_callbacks = <<"P1">>
  /\ replies = <<[kind |-> "pong", msg |-> "a"]>>

\* ------------------------------------------------- the three mutexes (C24)
\* the threads that lock a mutex
Threads == Callers \cup Pingers \cup Handlers \cup {Rx}
\* the mutex thread th is about to lock, if it is at a lock statement
WaitsFor(th) ==
  IF th \notin Handlers THEN Null
  ELSE CASE hpc[th] = "lock_ping" -> "m_ping_callbacks_mutex"
         [] hpc[th] = "lock_sub" -> "m_subscribed_channels_mutex"
         [] hpc[th] = "lock_psub" -> "m_psubscribed_channels_mutex"
         [] OTHER -> Null

RECURSIVE Proceeds(_, _)
\* thread th is not at a lock statement, or the mutex it waits for is free,
\* or its owner is a thread that proceeds (n bounds the chain of owners)
Proceeds(th, n) ==
  \/ WaitsFor(th) = Null
  \/ Owner(WaitsFor(th)) = NoOwner
  \/ n > 0 /\ Proceeds(Owner(WaitsFor(th)), n - 1)

\* no thread is inside the core
AllReturned ==
  /\ Quiet
  /\ rpc = "idle"
  /\ \A t \in Pingers : pingers[t].at = "idle"
  /\ \A t \in Callers : cpc[t] = "idle"

\* C24: a thread that owns more than one of the three mutexes is a disconnect
\* handler, and it owns the channel mutex only with the ping mutex and the
\* pattern mutex only with the channel mutex; no thread waits for a mutex in
\* a cycle of owners; and when every handler and callback has returned all
\* three mutexes are free, so that every caller operation proceeds
C24_LockOrderNoDeadlock ==
  /\ \A th \in Threads :
       Cardinality(HeldBy(th)) > 1 =>
         /\ th \in Handlers
         /\ sub_mtx = th => ping_mtx = th
         /\ psub_mtx = th => sub_mtx = th
  /\ \A th \in Threads : Proceeds(th, Cardinality(Threads))
  /\ AllReturned => \A mtx \in Mutexes : Owner(mtx) = NoOwner

\* a handler owns the ping mutex and waits for the channel mutex, which the
\* receive thread owns while a message callback runs; the second disconnect
\* event of the outage waits for the ping mutex
C24_Witness ==
  /\ hpc["h1"] = "lock_sub"
  /\ ping_mtx = "h1"
  /\ sub_mtx = Rx
  /\ rpc = "callback"
  /\ hpc["h2"] = "lock_ping"

\* ------------------------------------------- the reconnecting flag (C25)
\* C25: the reconnecting flag is true only while a disconnect handler is
\* past its entry test and has not returned, whichever way it returns, the
\* exception of the replay's commit() included
C25_ReconnectingOnlyWhileHandling ==
  m_reconnecting => \E h \in Handlers : hpc[h] \notin {"idle", "entry"}

\* ------------------------------------ disconnect events resolved (C26)
\* C26: when every disconnect event has been handled and the reconnecting
\* flag is false, the transport is connected again, or the handler has given
\* up: the registry is empty (it is cleared where `stopped` is notified)
C26_DisconnectResolved ==
  (Quiet /\ ~m_reconnecting /\ ~connected) =>
    /\ m_subscribed_channels = EmptyMap
    /\ m_psubscribed_channels = EmptyMap

\* ------------------------------ one delivery per ping callback (C27)
\* the callback the last pong was dispatched to, once it has been invoked
PongInvoked ==
  IF lastPong.cb # Null /\ rpc # "pong_pop" THEN {lastPong.cb} ELSE {}

\* C27: a ping callback that a pong has invoked is not also handed to the
\* thread that delivers "network failure", whatever the interleaving of
\* disconnect() with ping() and with the receive thread
C27_PingCallbackAtMostOnce == PongInvoked \cap (failing \cup failed) = {}

\* ------------------------------------------- the cancel flag (C28)
\* handler h executes the test of its while loop
LoopTest(h) == hpc[h] = "loop" /\ hpc'[h] # "loop"
\* both tables are empty
RegistryEmpty ==
  m_subscribed_channels = EmptyMap /\ m_psubscribed_channels = EmptyMap

\* C28: the cancel flag, once set, stays set, also across a later connect();
\* from then on the loop of every disconnect handler ends at its next test,
\* without an attempt, and once the disconnect events have been dealt with a
\* subscriber that is not connected has had its registry cleared
C28_CancelSticky ==
  [][/\ m_cancel => m_cancel'
     /\ \A h \in Handlers : (m_cancel /\ LoopTest(h)) => hpc'[h] = "exit"
     /\ (m_cancel /\ Quiet /\ ~connected) => RegistryEmpty]_vars

\* what holds of every disconnect event that is not ignored at the entry
\* test: the flag stays set, the loop ends at its next test, and the test
\* after the loop, finding the transport disconnected, clears the registry
\* and notifies `stopped`
C28_StickyWhenHandled ==
  [][/\ m_cancel => m_cancel'
     /\ \A h \in Handlers :
          /\ (m_cancel /\ LoopTest(h)) => hpc'[h] = "exit"
          /\ (m_cancel /\ ExitTest(h) /\ ~connected) =>
               /\ m_subscribed_channels' = EmptyMap
               /\ m_psubscribed_channels' = EmptyMap
               /\ m_connect_callback # Null =>
                    States(notes'[h]) = Append(States(notes[h]), "stopped")]_vars

\* ------------------------------ the CLIENT SETNAME callback (C29)
\* the receive thread hands the reply at the head of the stream to the
\* callback of client_setname
SetnameDelivery ==
  /\ rpc = "idle" /\ rpc' = "setname_clear"
  /\ replies # <<>> /\ replies' = Tail(replies)

====
